---- MODULE Spec2Model ----
(***************************************************************************)
(* UTXO ledger indexer: Database (src/src/databases/index.ts),             *)
(* BlockValidator and validateBlockSchema (src/src/validators/index.ts)    *)
(* and IndexerService (src/unnamed/part_001, src/services/indexer.ts).     *)
(*                                                                         *)
(* The PostgreSQL store is the variable db: its three tables are sets of   *)
(* rows, and the PRIMARY KEY / UNIQUE constraints of createTables are      *)
(* checked statement by statement inside saveBlock.  Every service or      *)
(* store call is one action; the record it returns to its caller is kept   *)
(* in the variable call until the caller resumes (action Return).          *)
(*                                                                         *)
(* The second half of the module follows the same calls query by query:    *)
(* every await of a store query is a step of a task (variable tasks), a    *)
(* saveBlock or rollbackToHeight transaction keeps its uncommitted writes  *)
(* in the task until COMMIT, and the queries of several tasks interleave.  *)
(***************************************************************************)
EXTENDS Integers, Sequences, FiniteSets, TLC

VARIABLES db, call, history, tasks

vars == <<db, call, history, tasks>>

(***************************************************************************)
(* Bounds and program constants                                            *)
(***************************************************************************)
\* highest block height a caller submits (the code has no cap)
MaxHeight == 3

\* IndexerService.rollbackToHeight: "currentHeight - height > 2000"
MaxRollbackDepth == 2000

\* POST /blocks requests sent to the earlier routes in one run
MaxPosts == 3

\* transaction ids callers use, in the order String.prototype.sort gives
TxIdOrder == <<"a", "b", "c">>

TxIds == {TxIdOrder[i] : i \in 1..Len(TxIdOrder)}

Addresses == {"addr1", "addr2"}

\* SQL NULL in outputs.spent_in_tx
Null == "<NULL>"

(***************************************************************************)
(* Strings: Number.prototype.toString, Array.prototype.sort / join, sha256 *)
(***************************************************************************)
DigitChar == <<"0", "1", "2", "3", "4", "5", "6", "7", "8", "9">>

RECURSIVE NatToString(_)
NatToString(n) ==
  IF n < 10 THEN DigitChar[n + 1]
  ELSE NatToString(n \div 10) \o DigitChar[(n % 10) + 1]

NumberToString(n) == IF n < 0 THEN "-" \o NatToString(0 - n) ELSE NatToString(n)

Rank(id) == CHOOSE i \in 1..Len(TxIdOrder) : TxIdOrder[i] = id

RECURSIVE InsertSorted(_, _)
InsertSorted(id, s) ==
  IF s = <<>> THEN <<id>>
  ELSE IF Rank(id) < Rank(Head(s)) THEN <<id>> \o s
  ELSE <<Head(s)>> \o InsertSorted(id, Tail(s))

\* transactionIds.sort(): lexicographic order of the ids
RECURSIVE Sort(_)
Sort(s) == IF s = <<>> THEN <<>> ELSE InsertSorted(Head(s), Sort(Tail(s)))

\* transactionIds.join('')
RECURSIVE Join(_)
Join(s) == IF s = <<>> THEN "" ELSE Head(s) \o Join(Tail(s))

\* createHash('sha256').update(s).digest('hex'): an injective digest of the
\* hashed string (collisions of SHA-256 are not modelled)
Sha256(s) == "sha256(" \o s \o ")"

TxIdsOf(txs) == [i \in 1..Len(txs) |-> txs[i].id]

\* the id computed from the transaction ids in their declared order
ExpectedBlockId_Unsorted(height, txs) ==
  Sha256(NumberToString(height) \o Join(TxIdsOf(txs)))

\* the id validateBlockId recomputes
ExpectedBlockId(height, txs) ==
  Sha256(NumberToString(height) \o Join(Sort(TxIdsOf(txs))))

(***************************************************************************)
(* Database                                                                *)
(***************************************************************************)
EmptyDb == [blocks |-> {}, transactions |-> {}, outputs |-> {}]

\* the greatest element of a non-empty set of numbers (the first conjunct
\* follows from the second; it spares the scan for elements with a successor)
SetMax(S) == CHOOSE m \in S : (m + 1) \notin S /\ \A n \in S : n <= m

\* SELECT MAX(height) FROM blocks; max_height || 0
GetCurrentHeight(S) ==
  IF S.blocks = {} THEN 0 ELSE SetMax({b.height : b \in S.blocks})

\* SELECT * FROM outputs WHERE tx_id = $1 AND output_index = $2: the set of
\* matching rows as StoredOutput values (empty set: the code returns null)
GetOutput(S, txId, index) ==
  {[txId |-> o.tx_id, index |-> o.output_index, address |-> o.address,
    value |-> o.value, spent |-> o.spent] :
     o \in {r \in S.outputs : r.tx_id = txId /\ r.output_index = index}}

RECURSIVE SumValues(_)
SumValues(rows) ==
  IF rows = {} THEN 0
  ELSE LET r == CHOOSE x \in rows : TRUE
       IN  r.value + SumValues(rows \ {r})

\* SUM(CASE WHEN spent = FALSE ...) - SUM(CASE WHEN spent = TRUE ...)
GetBalance(S, address) ==
  LET owned == {o \in S.outputs : o.address = address}
  IN  SumValues({o \in owned : ~o.spent}) - SumValues({o \in owned : o.spent})

DuplicateKey(constraint) ==
  "duplicate key value violates unique constraint \"" \o constraint \o "\""

\* INSERT INTO outputs ..., for the outputs of tx from index i on
RECURSIVE InsertOutputs(_, _, _, _)
InsertOutputs(W, tx, height, i) ==
  IF ~W.ok \/ i > Len(tx.outputs) THEN W
  ELSE IF \E o \in W.db.outputs : o.tx_id = tx.id /\ o.output_index = i - 1
       THEN [W EXCEPT !.ok = FALSE, !.error = DuplicateKey("outputs_pkey")]
       ELSE InsertOutputs(
              [W EXCEPT !.db.outputs = @ \cup
                 {[tx_id |-> tx.id, output_index |-> i - 1,
                   address |-> tx.outputs[i].address,
                   value |-> tx.outputs[i].value,
                   spent |-> FALSE, spent_in_tx |-> Null,
                   block_height |-> height]}],
              tx, height, i + 1)

\* the UPDATE with "WHERE tx_id = $2" alone: every output of the referenced
\* transaction is marked
RECURSIVE MarkInputs_WholeTransaction(_, _, _)
MarkInputs_WholeTransaction(W, tx, i) ==
  IF i > Len(tx.inputs) THEN W
  ELSE MarkInputs_WholeTransaction(
         [W EXCEPT !.db.outputs =
            {IF o.tx_id = tx.inputs[i].txId
             THEN [o EXCEPT !.spent = TRUE, !.spent_in_tx = tx.id]
             ELSE o : o \in @}],
         tx, i + 1)

\* the UPDATE with "SET spent = TRUE" alone: the spender is not recorded
RECURSIVE MarkInputs_FlagOnly(_, _, _)
MarkInputs_FlagOnly(W, tx, i) ==
  IF i > Len(tx.inputs) THEN W
  ELSE MarkInputs_FlagOnly(
         [W EXCEPT !.db.outputs =
            {IF o.tx_id = tx.inputs[i].txId /\ o.output_index = tx.inputs[i].index
             THEN [o EXCEPT !.spent = TRUE]
             ELSE o : o \in @}],
         tx, i + 1)

\* UPDATE outputs SET spent = TRUE, spent_in_tx = tx.id WHERE ..., for the
\* inputs of tx from position i on
RECURSIVE MarkInputs(_, _, _)
MarkInputs(W, tx, i) ==
  IF i > Len(tx.inputs) THEN W
  ELSE MarkInputs(
         [W EXCEPT !.db.outputs =
            {IF o.tx_id = tx.inputs[i].txId /\ o.output_index = tx.inputs[i].index
             THEN [o EXCEPT !.spent = TRUE, !.spent_in_tx = tx.id]
             ELSE o : o \in @}],
         tx, i + 1)

\* the two INSERTs into tables without primary keys
RECURSIVE InsertOutputs_NoPrimaryKey(_, _, _, _)
InsertOutputs_NoPrimaryKey(W, tx, height, i) ==
  IF i > Len(tx.outputs) THEN W
  ELSE InsertOutputs_NoPrimaryKey(
         [W EXCEPT !.db.outputs = @ \cup
            {[tx_id |-> tx.id, output_index |-> i - 1,
              address |-> tx.outputs[i].address,
              value |-> tx.outputs[i].value,
              spent |-> FALSE, spent_in_tx |-> Null,
              block_height |-> height]}],
         tx, height, i + 1)

RECURSIVE SaveTransactions_NoPrimaryKeys(_, _, _)
SaveTransactions_NoPrimaryKeys(W, block, k) ==
  IF ~W.ok \/ k > Len(block.transactions) THEN W
  ELSE LET tx == block.transactions[k]
           W1 == [W EXCEPT !.db.transactions = @ \cup
                     {[id |-> tx.id, block_id |-> block.id,
                       block_height |-> block.height, data |-> tx]}]
           W2 == InsertOutputs_NoPrimaryKey(W1, tx, block.height, 1)
       IN  SaveTransactions_NoPrimaryKeys(MarkInputs(W2, tx, 1), block, k + 1)

\* the body of "for (const tx of block.transactions)" from transaction k on
RECURSIVE SaveTransactions(_, _, _)
SaveTransactions(W, block, k) ==
  IF ~W.ok \/ k > Len(block.transactions) THEN W
  ELSE LET tx == block.transactions[k] IN
       IF \E t \in W.db.transactions : t.id = tx.id
       THEN [W EXCEPT !.ok = FALSE, !.error = DuplicateKey("transactions_pkey")]
       ELSE LET W1 == [W EXCEPT !.db.transactions = @ \cup
                          {[id |-> tx.id, block_id |-> block.id,
                            block_height |-> block.height, data |-> tx]}]
                W2 == InsertOutputs(W1, tx, block.height, 1)
                W3 == IF W2.ok THEN MarkInputs(W2, tx, 1) ELSE W2
            IN  SaveTransactions(W3, block, k + 1)

\* INSERT INTO blocks ...
InsertBlock(S, block) ==
  IF \E b \in S.blocks : b.id = block.id
  THEN [ok |-> FALSE, error |-> DuplicateKey("blocks_pkey"), db |-> S]
  ELSE IF \E b \in S.blocks : b.height = block.height
  THEN [ok |-> FALSE, error |-> DuplicateKey("blocks_height_key"), db |-> S]
  ELSE [ok |-> TRUE, error |-> "",
        db |-> [S EXCEPT !.blocks = @ \cup
                  {[id |-> block.id, height |-> block.height, data |-> block]}]]

\* saveBlock whose catch block rethrows without ROLLBACK, the statements
\* executed so far staying in the store
SaveBlock_NoRollback(S, block) ==
  SaveTransactions(InsertBlock(S, block), block, 1)

\* Database.saveBlock: BEGIN ... COMMIT, or ROLLBACK and rethrow.  ok = FALSE
\* is the rethrown error; db is the store after the call.
SaveBlock(S, block) ==
  LET W == SaveTransactions(InsertBlock(S, block), block, 1)
  IN  IF W.ok THEN W ELSE [ok |-> FALSE, error |-> W.error, db |-> S]

\* the rows of "SELECT DISTINCT o.tx_id, o.output_index FROM outputs o JOIN
\* transactions t ON o.spent_in_tx = t.id WHERE t.block_height > $1 AND
\* o.spent = TRUE"
SpentOutputsAbove(S, height) ==
  {o \in S.outputs :
     /\ o.spent
     /\ \E t \in S.transactions : t.id = o.spent_in_tx /\ t.block_height > height}

\* RollbackStore without the UPDATE that clears the spent marks
RollbackStore_NoUnmark(S, height) ==
  [blocks       |-> {b \in S.blocks : ~(b.height > height)},
   transactions |-> {t \in S.transactions : ~(t.block_height > height)},
   outputs      |-> {o \in S.outputs : ~(o.block_height > height)}]

\* RollbackStore without "DELETE FROM transactions WHERE block_height > $1"
RollbackStore_KeepsTransactions(S, height) ==
  LET unmark   == SpentOutputsAbove(S, height)
      unmarked == {IF \E u \in unmark : u.tx_id = o.tx_id
                                        /\ u.output_index = o.output_index
                   THEN [o EXCEPT !.spent = FALSE, !.spent_in_tx = Null]
                   ELSE o : o \in S.outputs}
  IN  [blocks       |-> {b \in S.blocks : ~(b.height > height)},
       transactions |-> S.transactions,
       outputs      |-> {o \in unmarked : ~(o.block_height > height)}]

\* Database.rollbackToHeight: un-mark, then the three DELETEs, then COMMIT
RollbackStore(S, height) ==
  LET unmark   == SpentOutputsAbove(S, height)
      unmarked == {IF \E u \in unmark : u.tx_id = o.tx_id
                                        /\ u.output_index = o.output_index
                   THEN [o EXCEPT !.spent = FALSE, !.spent_in_tx = Null]
                   ELSE o : o \in S.outputs}
  IN  [blocks       |-> {b \in S.blocks : ~(b.height > height)},
       transactions |-> {t \in S.transactions : ~(t.block_height > height)},
       outputs      |-> {o \in unmarked : ~(o.block_height > height)}]

(***************************************************************************)
(* BlockValidator                                                          *)
(***************************************************************************)
Valid == [isValid |-> TRUE, error |-> ""]

Invalid(msg) == [isValid |-> FALSE, error |-> msg]

\* ValidateHeight that accepts every height
ValidateHeight_NoCheck(S, height) == Valid

\* ValidateHeight that only refuses heights already stored
ValidateHeight_AllowsSkip(S, height) ==
  LET currentHeight == GetCurrentHeight(S)
  IN  IF height <= currentHeight
      THEN Invalid("Invalid height. Expected " \o NumberToString(currentHeight + 1)
                   \o ", got " \o NumberToString(height))
      ELSE Valid

ValidateHeight(S, height) ==
  LET currentHeight == GetCurrentHeight(S)
  IN  IF height # currentHeight + 1
      THEN Invalid("Invalid height. Expected " \o NumberToString(currentHeight + 1)
                   \o ", got " \o NumberToString(height))
      ELSE Valid

ValidateBlockId(block) ==
  LET expectedId == ExpectedBlockId(block.height, block.transactions)
  IN  IF block.id # expectedId
      THEN Invalid("Invalid block ID. Expected " \o expectedId
                   \o ", got " \o block.id)
      ELSE Valid

\* ValidateInputs without the "if (output.spent)" test
RECURSIVE ValidateInputs_NoSpentCheck(_, _, _, _)
ValidateInputs_NoSpentCheck(S, inputs, i, inputSum) ==
  IF i > Len(inputs) THEN [isValid |-> TRUE, error |-> "", sum |-> inputSum]
  ELSE LET rows == GetOutput(S, inputs[i].txId, inputs[i].index)
           ref  == inputs[i].txId \o ":" \o NumberToString(inputs[i].index)
       IN  IF rows = {}
           THEN [isValid |-> FALSE, sum |-> inputSum,
                 error |-> "Referenced output not found: " \o ref]
           ELSE LET output == CHOOSE o \in rows : TRUE
                IN  ValidateInputs_NoSpentCheck(S, inputs, i + 1,
                                                inputSum + output.value)

\* first loop of validateTransaction from input i on; sum is inputSum so far
RECURSIVE ValidateInputs(_, _, _, _)
ValidateInputs(S, inputs, i, inputSum) ==
  IF i > Len(inputs) THEN [isValid |-> TRUE, error |-> "", sum |-> inputSum]
  ELSE LET rows == GetOutput(S, inputs[i].txId, inputs[i].index)
           ref  == inputs[i].txId \o ":" \o NumberToString(inputs[i].index)
       IN  IF rows = {}
           THEN [isValid |-> FALSE, sum |-> inputSum,
                 error |-> "Referenced output not found: " \o ref]
           ELSE LET output == CHOOSE o \in rows : TRUE
                IN  IF output.spent
                    THEN [isValid |-> FALSE, sum |-> inputSum,
                          error |-> "Output already spent: " \o ref]
                    ELSE ValidateInputs(S, inputs, i + 1, inputSum + output.value)

\* second loop of validateTransaction from output i on
RECURSIVE ValidateOutputs(_, _, _)
ValidateOutputs(outputs, i, outputSum) ==
  IF i > Len(outputs) THEN [isValid |-> TRUE, error |-> "", sum |-> outputSum]
  ELSE IF outputs[i].value < 0
       THEN [isValid |-> FALSE, sum |-> outputSum,
             error |-> "Negative output value not allowed: "
                       \o NumberToString(outputs[i].value)]
       ELSE ValidateOutputs(outputs, i + 1, outputSum + outputs[i].value)

\* ValidateTransaction that only refuses a transaction spending more than
\* it creates ("inputSum > outputSum")
ValidateTransaction_OnlyOverspend(S, transaction) ==
  LET ins == ValidateInputs(S, transaction.inputs, 1, 0) IN
  IF ~ins.isValid THEN Invalid(ins.error)
  ELSE LET outs == ValidateOutputs(transaction.outputs, 1, 0) IN
       IF ~outs.isValid THEN Invalid(outs.error)
       ELSE IF ins.sum > outs.sum
            THEN Invalid("Input sum (" \o NumberToString(ins.sum)
                         \o ") does not equal output sum ("
                         \o NumberToString(outs.sum) \o ")")
            ELSE Valid

\* ValidateTransaction that compares the sums only for a transaction with
\* inputs (a zero-input transaction may create value)
ValidateTransaction_ExemptsZeroInput(S, transaction) ==
  LET ins == ValidateInputs(S, transaction.inputs, 1, 0) IN
  IF ~ins.isValid THEN Invalid(ins.error)
  ELSE LET outs == ValidateOutputs(transaction.outputs, 1, 0) IN
       IF ~outs.isValid THEN Invalid(outs.error)
       ELSE IF transaction.inputs # <<>> /\ ins.sum # outs.sum
            THEN Invalid("Input sum (" \o NumberToString(ins.sum)
                         \o ") does not equal output sum ("
                         \o NumberToString(outs.sum) \o ")")
            ELSE Valid

\* ValidateTransaction without the comparison of the sums
ValidateTransaction_NoSumCheck(S, transaction) ==
  LET ins == ValidateInputs(S, transaction.inputs, 1, 0) IN
  IF ~ins.isValid THEN Invalid(ins.error)
  ELSE LET outs == ValidateOutputs(transaction.outputs, 1, 0) IN
       IF ~outs.isValid THEN Invalid(outs.error) ELSE Valid

ValidateTransaction(S, transaction) ==
  LET ins == ValidateInputs(S, transaction.inputs, 1, 0) IN
  IF ~ins.isValid THEN Invalid(ins.error)
  ELSE LET outs == ValidateOutputs(transaction.outputs, 1, 0) IN
       IF ~outs.isValid THEN Invalid(outs.error)
       ELSE IF ins.sum # outs.sum
            THEN Invalid("Input sum (" \o NumberToString(ins.sum)
                         \o ") does not equal output sum ("
                         \o NumberToString(outs.sum) \o ")")
            ELSE Valid

\* "for (const transaction of block.transactions)" from transaction k on
RECURSIVE ValidateTransactions(_, _, _)
ValidateTransactions(S, txs, k) ==
  IF k > Len(txs) THEN Valid
  ELSE LET txValidation == ValidateTransaction(S, txs[k])
       IN  IF ~txValidation.isValid THEN txValidation
           ELSE ValidateTransactions(S, txs, k + 1)

ValidateBlock(S, block) ==
  LET heightValidation == ValidateHeight(S, block.height) IN
  IF ~heightValidation.isValid THEN heightValidation
  ELSE LET idValidation == ValidateBlockId(block) IN
       IF ~idValidation.isValid THEN idValidation
       ELSE ValidateTransactions(S, block.transactions, 1)

(***************************************************************************)
(* Schema guard.  Callers' values are records with fields id, height,      *)
(* transactions (and id, inputs, outputs / txId, index / address, value),  *)
(* so the typeof and Array.isArray tests hold; what remains of each test   *)
(* is its second half: a falsy id, a height below 1, a negative number.    *)
(***************************************************************************)
RECURSIVE InputsSchema(_, _)
InputsSchema(inputs, i) ==
  IF i > Len(inputs) THEN Valid
  ELSE IF inputs[i].txId = ""
       THEN Invalid("Input " \o NumberToString(i - 1) \o " txId must be a non-empty string")
  ELSE IF inputs[i].index < 0
       THEN Invalid("Input " \o NumberToString(i - 1) \o " index must be a non-negative number")
  ELSE InputsSchema(inputs, i + 1)

RECURSIVE OutputsSchema(_, _)
OutputsSchema(outputs, i) ==
  IF i > Len(outputs) THEN Valid
  ELSE IF outputs[i].address = ""
       THEN Invalid("Output " \o NumberToString(i - 1) \o " address must be a non-empty string")
  ELSE IF outputs[i].value < 0
       THEN Invalid("Output " \o NumberToString(i - 1) \o " value must be a non-negative number")
  ELSE OutputsSchema(outputs, i + 1)

ValidateTransactionSchema(tx) ==
  IF tx.id = "" THEN Invalid("Transaction ID must be a non-empty string")
  ELSE LET ins == InputsSchema(tx.inputs, 1) IN
       IF ~ins.isValid THEN ins ELSE OutputsSchema(tx.outputs, 1)

RECURSIVE TransactionsSchema(_, _)
TransactionsSchema(txs, i) ==
  IF i > Len(txs) THEN Valid
  ELSE LET txValidation == ValidateTransactionSchema(txs[i])
       IN  IF ~txValidation.isValid
           THEN Invalid("Transaction " \o NumberToString(i - 1) \o ": " \o txValidation.error)
           ELSE TransactionsSchema(txs, i + 1)

ValidateBlockSchema(data) ==
  IF data.id = "" THEN Invalid("Block ID must be a non-empty string")
  ELSE IF data.height < 1 THEN Invalid("Block height must be a positive number")
  ELSE TransactionsSchema(data.transactions, 1)

(***************************************************************************)
(* IndexerService                                                          *)
(***************************************************************************)
Success(S) == [success |-> TRUE, error |-> "", db |-> S]

Failure(msg, S) == [success |-> FALSE, error |-> msg, db |-> S]

\* processBlock that answers a validator's rejection with success: true (the
\* truthy validation object taken for its isValid field)
ProcessBlockResult_RejectionAsSuccess(S, blockData) ==
  LET schemaValidation == ValidateBlockSchema(blockData) IN
  IF ~schemaValidation.isValid THEN Failure(schemaValidation.error, S)
  ELSE LET validation == ValidateBlock(S, blockData) IN
       IF ~validation.isValid THEN [success |-> TRUE, error |-> validation.error, db |-> S]
       ELSE LET saved == SaveBlock(S, blockData)
            IN  IF saved.ok THEN Success(saved.db)
                ELSE Failure(saved.error, saved.db)

\* IndexerService.processBlock: the returned {success, error} and the store
\* after the call
ProcessBlockResult(S, blockData) ==
  LET schemaValidation == ValidateBlockSchema(blockData) IN
  IF ~schemaValidation.isValid THEN Failure(schemaValidation.error, S)
  ELSE LET validation == ValidateBlock(S, blockData) IN
       IF ~validation.isValid THEN Failure(validation.error, S)
       ELSE LET saved == SaveBlock(S, blockData)
            IN  IF saved.ok THEN Success(saved.db)
                ELSE Failure(saved.error, saved.db)

\* rollbackToHeight with the depth bound off by one (">= 2000")
RollbackToHeightResult_DepthOffByOne(S, height) ==
  IF height < 0 THEN Failure("Height must be a non-negative number", S)
  ELSE LET currentHeight == GetCurrentHeight(S) IN
       IF height > currentHeight
       THEN Failure("Cannot rollback to height " \o NumberToString(height)
                    \o ", current height is " \o NumberToString(currentHeight), S)
       ELSE IF currentHeight - height >= MaxRollbackDepth
       THEN Failure("Cannot rollback more than 2000 blocks. Current: "
                    \o NumberToString(currentHeight) \o ", Target: "
                    \o NumberToString(height), S)
       ELSE Success(RollbackStore(S, height))

\* rollbackToHeight without the "height > currentHeight" test
RollbackToHeightResult_NoFutureCheck(S, height) ==
  IF height < 0 THEN Failure("Height must be a non-negative number", S)
  ELSE LET currentHeight == GetCurrentHeight(S) IN
       IF currentHeight - height > MaxRollbackDepth
       THEN Failure("Cannot rollback more than 2000 blocks. Current: "
                    \o NumberToString(currentHeight) \o ", Target: "
                    \o NumberToString(height), S)
       ELSE Success(RollbackStore(S, height))

\* IndexerService.rollbackToHeight
RollbackToHeightResult(S, height) ==
  IF height < 0 THEN Failure("Height must be a non-negative number", S)
  ELSE LET currentHeight == GetCurrentHeight(S) IN
       IF height > currentHeight
       THEN Failure("Cannot rollback to height " \o NumberToString(height)
                    \o ", current height is " \o NumberToString(currentHeight), S)
       ELSE IF currentHeight - height > MaxRollbackDepth
       THEN Failure("Cannot rollback more than 2000 blocks. Current: "
                    \o NumberToString(currentHeight) \o ", Target: " \o NumberToString(height), S)
       ELSE Success(RollbackStore(S, height))

(***************************************************************************)
(* JavaScript values, for the arguments callers pass without regard to     *)
(* the TypeScript types.  A number is kept in tenths, so that 1.5 is       *)
(* Tenths(15) and 2 is Number(2).                                          *)
(***************************************************************************)
Undefined == [kind |-> "undefined"]

JsNull == [kind |-> "null"]

NaN == [kind |-> "NaN"]

Boolean(b) == [kind |-> "boolean", truth |-> b]

Tenths(t) == [kind |-> "number", tenths |-> t]

Number(n) == Tenths(10 * n)

String(s) == [kind |-> "string", value |-> s]

Array(items) == [kind |-> "array", items |-> items]

\* an object with the own properties DOMAIN fields
Object(fields) == [kind |-> "object", fields |-> fields]

\* the typeof operator
TypeOf(v) ==
  CASE v.kind \in {"null", "array", "object"} -> "object"
    [] v.kind = "NaN" -> "number"
    [] OTHER -> v.kind

\* "!v"
Falsy(v) ==
  \/ v.kind \in {"undefined", "null", "NaN"}
  \/ v.kind = "boolean" /\ ~v.truth
  \/ v.kind = "number" /\ v.tenths = 0
  \/ v.kind = "string" /\ v.value = ""

\* Array.isArray(v)
IsArray(v) == v.kind = "array"

\* "v.name" of a value that is neither null nor undefined
Get(v, name) ==
  IF v.kind = "object" /\ name \in DOMAIN v.fields THEN v.fields[name]
  ELSE Undefined

\* "v < n" and "v > n" for a v with typeof v === 'number' and an integer n:
\* every comparison with NaN is false
LessThan(v, n) == v.kind = "number" /\ v.tenths < 10 * n

GreaterThan(v, n) == v.kind = "number" /\ v.tenths > 10 * n

\* Number.isInteger(v)
IsInteger(v) == v.kind = "number" /\ v.tenths % 10 = 0

\* the integer an integral number is
ToInteger(v) == v.tenths \div 10

\* `${v}` of a number that is not negative
NumberText(v) ==
  IF v.kind = "NaN" THEN "NaN"
  ELSE IF v.tenths % 10 = 0 THEN NumberToString(v.tenths \div 10)
  ELSE NumberToString(v.tenths \div 10) \o "." \o DigitChar[(v.tenths % 10) + 1]

(***************************************************************************)
(* The schema guard and the service's argument checks on any JavaScript    *)
(* value.  ValidateBlockSchema and RollbackToHeightResult above are the    *)
(* same code on arguments of the declared types.                           *)
(***************************************************************************)
\* validateTransactionSchema: "for (let i = 0; i < tx.inputs.length; i++)"
RECURSIVE SchemaOfInputs(_, _)
SchemaOfInputs(inputs, i) ==
  IF i > Len(inputs) THEN Valid
  ELSE LET input == inputs[i] IN
       IF Falsy(input) \/ TypeOf(input) # "object"
       THEN Invalid("Input " \o NumberToString(i - 1) \o " must be an object")
       ELSE IF TypeOf(Get(input, "txId")) # "string" \/ Falsy(Get(input, "txId"))
       THEN Invalid("Input " \o NumberToString(i - 1) \o " txId must be a non-empty string")
       ELSE IF TypeOf(Get(input, "index")) # "number" \/ LessThan(Get(input, "index"), 0)
       THEN Invalid("Input " \o NumberToString(i - 1) \o " index must be a non-negative number")
       ELSE SchemaOfInputs(inputs, i + 1)

\* validateTransactionSchema: "for (let i = 0; i < tx.outputs.length; i++)"
RECURSIVE SchemaOfOutputs(_, _)
SchemaOfOutputs(outputs, i) ==
  IF i > Len(outputs) THEN Valid
  ELSE LET output == outputs[i] IN
       IF Falsy(output) \/ TypeOf(output) # "object"
       THEN Invalid("Output " \o NumberToString(i - 1) \o " must be an object")
       ELSE IF TypeOf(Get(output, "address")) # "string" \/ Falsy(Get(output, "address"))
       THEN Invalid("Output " \o NumberToString(i - 1) \o " address must be a non-empty string")
       ELSE IF TypeOf(Get(output, "value")) # "number" \/ LessThan(Get(output, "value"), 0)
       THEN Invalid("Output " \o NumberToString(i - 1) \o " value must be a non-negative number")
       ELSE SchemaOfOutputs(outputs, i + 1)

validateTransactionSchema(tx) ==
  IF Falsy(tx) \/ TypeOf(tx) # "object"
  THEN Invalid("Transaction must be an object")
  ELSE IF TypeOf(Get(tx, "id")) # "string" \/ Falsy(Get(tx, "id"))
  THEN Invalid("Transaction ID must be a non-empty string")
  ELSE IF ~IsArray(Get(tx, "inputs"))
  THEN Invalid("Transaction inputs must be an array")
  ELSE IF ~IsArray(Get(tx, "outputs"))
  THEN Invalid("Transaction outputs must be an array")
  ELSE LET ins == SchemaOfInputs(Get(tx, "inputs").items, 1) IN
       IF ~ins.isValid THEN ins
       ELSE SchemaOfOutputs(Get(tx, "outputs").items, 1)

\* validateBlockSchema: "for (let i = 0; i < data.transactions.length; i++)"
RECURSIVE SchemaOfTransactions(_, _)
SchemaOfTransactions(transactions, i) ==
  IF i > Len(transactions) THEN Valid
  ELSE LET txValidation == validateTransactionSchema(transactions[i]) IN
       IF ~txValidation.isValid
       THEN Invalid("Transaction " \o NumberToString(i - 1) \o ": " \o txValidation.error)
       ELSE SchemaOfTransactions(transactions, i + 1)

validateBlockSchema(data) ==
  IF Falsy(data) \/ TypeOf(data) # "object"
  THEN Invalid("Block must be an object")
  ELSE IF TypeOf(Get(data, "id")) # "string" \/ Falsy(Get(data, "id"))
  THEN Invalid("Block ID must be a non-empty string")
  ELSE IF TypeOf(Get(data, "height")) # "number" \/ LessThan(Get(data, "height"), 1)
  THEN Invalid("Block height must be a positive number")
  ELSE IF ~IsArray(Get(data, "transactions"))
  THEN Invalid("Block transactions must be an array")
  ELSE SchemaOfTransactions(Get(data, "transactions").items, 1)

\* what a service call returned, the store it left, and the methods of the
\* Database it called
Outcome(success, error, S, storeCalls) ==
  [success |-> success, error |-> error, db |-> S, storeCalls |-> storeCalls]

\* "currentHeight - height > 2000": false when height is NaN
DepthExceeded(currentHeight, height) ==
  height.kind = "number" /\ 10 * currentHeight - height.tenths > 10 * MaxRollbackDepth

\* IndexerService.rollbackToHeight.  A height that is no integer reaches the
\* store's first statement, "t.block_height > $1" on an INTEGER column,
\* which PostgreSQL refuses; the store's catch block rolls back and the
\* service's catch block returns the message.
rollbackToHeight(S, height) ==
  IF TypeOf(height) # "number" \/ LessThan(height, 0)
  THEN Outcome(FALSE, "Height must be a non-negative number", S, <<>>)
  ELSE LET currentHeight == GetCurrentHeight(S) IN
       IF GreaterThan(height, currentHeight)
       THEN Outcome(FALSE, "Cannot rollback to height " \o NumberText(height)
                           \o ", current height is " \o NumberToString(currentHeight),
                    S, <<"getCurrentHeight">>)
       ELSE IF DepthExceeded(currentHeight, height)
       THEN Outcome(FALSE, "Cannot rollback more than 2000 blocks. Current: "
                           \o NumberToString(currentHeight) \o ", Target: "
                           \o NumberText(height),
                    S, <<"getCurrentHeight">>)
       ELSE IF ~IsInteger(height)
       THEN Outcome(FALSE, "invalid input syntax for type integer: \""
                           \o NumberText(height) \o "\"",
                    S, <<"getCurrentHeight", "rollbackToHeight">>)
       ELSE Outcome(TRUE, "", RollbackStore(S, ToInteger(height)),
                    <<"getCurrentHeight", "rollbackToHeight">>)

(***************************************************************************)
(* Callers' inputs                                                         *)
(***************************************************************************)
\* references to the first output of a transaction
Ref(txId) == [txId |-> txId, index |-> 0]

\* no input, one input, the same output twice
InputSeqs == {<<>>, <<Ref("a")>>, <<Ref("b")>>, <<Ref("a"), Ref("a")>>}

Out(address, value) == [address |-> address, value |-> value]

\* a zero-valued output, a minted unit, a split into two zero-valued outputs
OutputSeqs ==
  {<<Out("addr1", 0)>>, <<Out("addr2", 1)>>, <<Out("addr1", 0), Out("addr2", 0)>>}

Transactions == [id : TxIds, inputs : InputSeqs, outputs : OutputSeqs]

\* transactions that move one output to one zero-valued output
SmallTransactions ==
  [id : TxIds, inputs : {<<Ref("a")>>, <<Ref("b")>>}, outputs : {<<Out("addr1", 0)>>}]

TransactionLists ==
  {<<>>} \cup {<<t>> : t \in Transactions}
         \cup {<<t1, t2>> : t1, t2 \in SmallTransactions}

\* a block id that is no digest
WrongId == "incorrect_id"

\* createTestBlock(height, transactions): the id is computed
TestBlock(height, txs) ==
  [id |-> ExpectedBlockId(height, txs), height |-> height, transactions |-> txs]

\* createTestBlock(height, transactions, customId)
CustomBlock(height, txs, customId) ==
  [id |-> customId, height |-> height, transactions |-> txs]

\* the blocks callers submit to processBlock; height 0 and a negative output
\* value are refused by the schema guard
BlockInputs ==
  {TestBlock(h, txs) : h \in 0..MaxHeight, txs \in TransactionLists}
  \cup
  {CustomBlock(h, txs, WrongId) :
     h \in 0..MaxHeight,
     txs \in {<<>>} \cup {<<t>> : t \in SmallTransactions}}
  \cup
  {TestBlock(h, <<[id |-> "c", inputs |-> <<>>,
                   outputs |-> <<Out("addr1", 0 - 1)>>]>>) : h \in 1..MaxHeight}

\* the blocks the store's own callers save: every transaction creates value 2,
\* kept whole or split 1 + 1, and spends no output or the first output of
\* another transaction
StoreTransactions ==
  {t \in [id : TxIds, inputs : {<<>>, <<Ref("a")>>, <<Ref("b")>>},
          outputs : {<<Out("addr1", 2)>>, <<Out("addr1", 1), Out("addr2", 1)>>}] :
     \A i \in 1..Len(t.inputs) : t.inputs[i].txId # t.id}

StoreBlockInputs ==
  {TestBlock(h, txs) :
     h \in 1..MaxHeight, txs \in {<<>>} \cup {<<t>> : t \in StoreTransactions}}

HeightInputs == (0 - 1)..(MaxHeight + 1)

(***************************************************************************)
(* Actions                                                                 *)
(***************************************************************************)
\* no call is waiting for its caller.  A call record holds the operation, its
\* argument, the store the call started from and the value it returned.
NoCall == [op |-> "none"]

Restrict(f, S) == [x \in S |-> f[x]]

\* the callers whose queries interleave
Tasks == {1, 2}

\* a task that is in no call
IdleTask == [pc |-> "idle"]

Init ==
  /\ db = EmptyDb
  /\ call = NoCall
  /\ history = (0 :> EmptyDb)
  /\ tasks = [t \in Tasks |-> IdleTask]

\* await indexerService.processBlock(blockData)
ProcessBlock(blockData) ==
  /\ call.op = "none"
  /\ LET r == ProcessBlockResult(db, blockData) IN
     /\ db' = r.db
     /\ call' = [op |-> "processBlock", arg |-> blockData, before |-> db,
                 success |-> r.success, error |-> r.error]
     /\ history' = IF r.success THEN (blockData.height :> r.db) @@ history
                   ELSE history
     /\ UNCHANGED tasks

\* await indexerService.rollbackToHeight(height)
RollbackToHeight(height) ==
  /\ call.op = "none"
  /\ LET r == RollbackToHeightResult(db, height) IN
     /\ db' = r.db
     /\ call' = [op |-> "rollbackToHeight", arg |-> height, before |-> db,
                 success |-> r.success, error |-> r.error]
     /\ history' = IF r.success
                   THEN Restrict(history, {k \in DOMAIN history : k <= height})
                   ELSE history
     /\ UNCHANGED tasks

\* await db.saveBlock(block), called on the store directly
SaveBlockCall(block) ==
  /\ call.op = "none"
  /\ LET r == SaveBlock(db, block) IN
     /\ db' = r.db
     /\ call' = [op |-> "saveBlock", arg |-> block, before |-> db,
                 success |-> r.ok, error |-> r.error]
     /\ history' = IF r.ok THEN (block.height :> r.db) @@ history ELSE history
     /\ UNCHANGED tasks

\* await db.rollbackToHeight(height), called on the store directly
RollbackStoreCall(height) ==
  /\ call.op = "none"
  /\ db' = RollbackStore(db, height)
  /\ call' = [op |-> "storeRollback", arg |-> height, before |-> db,
              success |-> TRUE, error |-> ""]
  /\ history' = Restrict(history, {k \in DOMAIN history : k <= height})
  /\ UNCHANGED tasks

\* the caller resumes with the returned value
Return ==
  /\ call.op # "none"
  /\ call' = NoCall
  /\ UNCHANGED <<db, history, tasks>>

Next ==
  \/ \E blockData \in BlockInputs : ProcessBlock(blockData)
  \/ \E height \in HeightInputs : RollbackToHeight(height)
  \/ Return

Spec == Init /\ [][Next]_vars

(***************************************************************************)
(* A long chain.  A block without transactions is valid at every height    *)
(* (its id is sha256 of the height), so 2001 calls of processBlock reach   *)
(* the store EmptyChain(2001); DeepSpec starts there, where the rollback   *)
(* depth bound of 2000 can be met.  history starts at that height.         *)
(***************************************************************************)
DeepBase == MaxRollbackDepth + 1

EmptyChain(n) ==
  [blocks |-> {[id |-> ExpectedBlockId(h, <<>>), height |-> h,
                data |-> TestBlock(h, <<>>)] : h \in 1..n},
   transactions |-> {},
   outputs |-> {}]

DeepInit ==
  /\ db = EmptyChain(DeepBase)
  /\ call = NoCall
  /\ history = (DeepBase :> EmptyChain(DeepBase))
  /\ tasks = [t \in Tasks |-> IdleTask]

DeepBlockInputs ==
  {TestBlock(h, txs) :
     h \in {1, 2, DeepBase, DeepBase + 1, DeepBase + 2},
     txs \in {<<>>} \cup {<<t>> : t \in [id : TxIds, inputs : {<<>>},
                                         outputs : {<<Out("addr1", 0)>>}]}}

DeepHeightInputs == {0 - 1, 0, 1, 2, DeepBase - 1, DeepBase, DeepBase + 1}

DeepNext ==
  \/ \E blockData \in DeepBlockInputs : ProcessBlock(blockData)
  \/ \E height \in DeepHeightInputs : RollbackToHeight(height)
  \/ Return

DeepSpec == DeepInit /\ [][DeepNext]_vars

StoreNext ==
  \/ \E block \in StoreBlockInputs :
        \* the store's callers extend the chain or repeat a stored height
        /\ block.height <= GetCurrentHeight(db) + 1
        /\ SaveBlockCall(block)
  \/ \E height \in HeightInputs : RollbackStoreCall(height)
  \/ Return

StoreSpec == Init /\ [][StoreNext]_vars

(***************************************************************************)
(* The routes of registerRoutes                                            *)
(***************************************************************************)
\* POST /blocks: the reply to the result of processBlock.  The handler's
\* catch block (status 500) is entered when processBlock throws, which its
\* own catch block never lets happen.
BlocksReply(result) ==
  IF ~result.success
  THEN [status |-> 400, error |-> "Block validation failed", message |-> result.error]
  ELSE [status |-> 201, error |-> "", message |-> "Block processed successfully"]

\* POST /blocks with request.body
PostBlocks(body) ==
  /\ call.op = "none"
  /\ LET result == ProcessBlockResult(db, body) IN
     /\ db' = result.db
     /\ call' = [op |-> "POST /blocks", arg |-> body, before |-> db,
                 success |-> result.success, error |-> result.error,
                 reply |-> BlocksReply(result)]
     /\ history' = IF result.success THEN (body.height :> result.db) @@ history
                   ELSE history
     /\ UNCHANGED tasks

RouteNext ==
  \/ \E body \in BlockInputs : PostBlocks(body)
  \/ Return

RouteSpec == Init /\ [][RouteNext]_vars

(***************************************************************************)
(* The earlier routes (routes/blocks, balances, rollback) on the tables of *)
(* database/db.ts.  Here db holds those tables: transactions (id,          *)
(* block_height, inputs, outputs) and balances (address, balance).  The    *)
(* code reads a table blocks that its createTables does not create and     *)
(* that no statement of it writes: the table is missing, or it was created *)
(* from outside (the tests DELETE FROM it) and is empty.  The handlers run *)
(* one at a time; their queries are not in a transaction, so a query that  *)
(* throws leaves the writes made before it.                                *)
(***************************************************************************)
LegacyTables(blocksTable) ==
  [blocksTable |-> blocksTable, blocks |-> {}, transactions |-> {}, balances |-> {}]

\* a value returned, or an error thrown
Gives(value) == [threw |-> FALSE, value |-> value]

Throws == [threw |-> TRUE, value |-> 0]

\* database/db.ts getCurrentHeight: SELECT height FROM blocks ORDER BY height
\* DESC LIMIT 1
getCurrentHeight(S) ==
  IF ~S.blocksTable THEN Throws
  ELSE IF S.blocks = {} THEN Gives(0)
  ELSE Gives(SetMax({b.height : b \in S.blocks}))

\* routes/blocks.ts getInputSum from input i on.  node-postgres hands a JSONB
\* column over as a parsed value, so JSON.parse(res.rows[0].outputs) throws
\* on any row found.
RECURSIVE getInputSum(_, _, _, _)
getInputSum(S, inputs, i, inputSum) ==
  IF i > Len(inputs) THEN Gives(inputSum)
  ELSE LET currentHeight == getCurrentHeight(S) IN
       IF currentHeight.threw THEN Throws
       ELSE IF \E r \in S.transactions :
                 r.id = inputs[i].txId /\ r.block_height < currentHeight.value
       THEN Throws
       ELSE getInputSum(S, inputs, i + 1, inputSum)

\* routes/blocks.ts computeBlockId: the ids are joined in the block's order
computeBlockId(block) ==
  Sha256(NumberToString(block.height) \o Join(TxIdsOf(block.transactions)))

\* database/balances.ts updateBalance
updateBalance(S, address, value) ==
  IF \E r \in S.balances : r.address = address
  THEN [S EXCEPT !.balances =
          {IF r.address = address THEN [r EXCEPT !.balance = @ + value] ELSE r :
             r \in @}]
  ELSE [S EXCEPT !.balances = @ \cup {[address |-> address, balance |-> value]}]

\* database/balances.ts getBalance
getBalance(S, address) ==
  IF \E r \in S.balances : r.address = address
  THEN (CHOOSE r \in S.balances : r.address = address).balance
  ELSE 0

\* "for (const output of transaction.outputs) await updateBalance(...)"
RECURSIVE UpdateBalances(_, _, _)
UpdateBalances(S, outputs, i) ==
  IF i > Len(outputs) THEN S
  ELSE UpdateBalances(updateBalance(S, outputs[i].address, outputs[i].value),
                      outputs, i + 1)

\* database/transactions.ts storeTransaction: transactions.id is the primary key
storeTransaction(S, txId, blockHeight, inputs, outputs) ==
  IF \E r \in S.transactions : r.id = txId THEN [threw |-> TRUE, db |-> S]
  ELSE [threw |-> FALSE,
        db |-> [S EXCEPT !.transactions = @ \cup
                  {[id |-> txId, block_height |-> blockHeight,
                    inputs |-> inputs, outputs |-> outputs]}]]

Reply(status, message, S) == [status |-> status, message |-> message, db |-> S]

\* an error thrown in a handler: Fastify's default error handler replies
ServerError(S) == Reply(500, "Internal Server Error", S)

\* "transaction.outputs.reduce((sum, output) => sum + output.value, 0)"
RECURSIVE ReduceOutputs(_, _, _)
ReduceOutputs(outputs, i, sum) ==
  IF i > Len(outputs) THEN sum
  ELSE ReduceOutputs(outputs, i + 1, sum + outputs[i].value)

\* routes/blocks.ts "// Validate transaction input/output sums", from
\* transaction k on: "" when every sum matches
RECURSIVE SumCheck(_, _, _)
SumCheck(S, block, k) ==
  IF k > Len(block.transactions) THEN ""
  ELSE LET transaction == block.transactions[k]
           inputSum == getInputSum(S, transaction.inputs, 1, 0)
           outputSum == ReduceOutputs(transaction.outputs, 1, 0)
       IN  IF inputSum.threw THEN "threw"
           ELSE IF inputSum.value # outputSum THEN "Input/output sum mismatch"
           ELSE SumCheck(S, block, k + 1)

\* routes/blocks.ts "// Process transactions", from transaction k on
RECURSIVE ProcessTransactions(_, _, _)
ProcessTransactions(S, block, k) ==
  IF k > Len(block.transactions) THEN Reply(200, "Block processed successfully", S)
  ELSE LET transaction == block.transactions[k]
           stored == storeTransaction(S, transaction.id, block.height,
                                      transaction.inputs, transaction.outputs)
       IN  IF stored.threw THEN ServerError(S)
           ELSE ProcessTransactions(UpdateBalances(stored.db, transaction.outputs, 1),
                                    block, k + 1)

\* routes/blocks.ts blocksRoute: POST /blocks
blocksRoute(S, block) ==
  LET currentHeight == getCurrentHeight(S) IN
  IF currentHeight.threw THEN ServerError(S)
  ELSE IF block.height # currentHeight.value + 1
  THEN Reply(400, "Invalid block height", S)
  ELSE LET sums == SumCheck(S, block, 1) IN
       IF sums = "threw" THEN ServerError(S)
       ELSE IF sums # "" THEN Reply(400, sums, S)
       ELSE IF computeBlockId(block) # block.id
       THEN Reply(400, "Invalid block ID", S)
       ELSE ProcessTransactions(S, block, 1)

\* routes/balances.ts balancesRoute: GET /balance/:address
balancesRoute(S, address) ==
  LET balance == getBalance(S, address) IN
  IF balance = 0 THEN Reply(404, "Address not found", S)
  ELSE Reply(200, NumberToString(balance), S)

\* database/balances.ts recalculateBalances: the balances are deleted, then
\* JSON.parse(tx.inputs) throws on the first transaction row (see
\* getInputSum)
recalculateBalances(S) ==
  [threw |-> S.transactions # {}, db |-> [S EXCEPT !.balances = {}]]

\* routes/rollback.ts rollbackRoute: POST /rollback?height=
rollbackRoute(S, height) ==
  IF height <= 0 THEN Reply(400, "Invalid height", S)
  ELSE LET currentHeight == getCurrentHeight(S) IN
       IF currentHeight.threw THEN ServerError(S)
       ELSE IF height >= currentHeight.value
       THEN Reply(400, "Cannot roll back to the current or future height", S)
       ELSE LET recalculated == recalculateBalances(S) IN
            IF recalculated.threw THEN ServerError(recalculated.db)
            ELSE Reply(200, "Rollback successful", recalculated.db)

\* the chain of the tests: 100 to addr1, split 60 + 40, then addr3's 40
\* split 20 + 20
GenesisBlock ==
  TestBlock(1, <<[id |-> "a", inputs |-> <<>>, outputs |-> <<Out("addr1", 100)>>]>>)

SecondBlock ==
  TestBlock(2, <<[id |-> "b", inputs |-> <<Ref("a")>>,
                  outputs |-> <<Out("addr2", 60), Out("addr3", 40)>>]>>)

ThirdBlock ==
  TestBlock(3, <<[id |-> "c", inputs |-> <<[txId |-> "b", index |-> 1]>>,
                  outputs |-> <<Out("addr4", 20), Out("addr5", 20)>>]>>)

\* the same chain without value, blocks of a wrong height and a wrong id
LegacyBlockInputs ==
  {GenesisBlock, SecondBlock, ThirdBlock}
  \cup {TestBlock(h, <<[id |-> x, inputs |-> <<>>, outputs |-> <<Out("addr1", 0)>>]>>) :
          h \in 1..2, x \in {"a", "b"}}
  \cup {TestBlock(h, <<[id |-> "b", inputs |-> <<Ref("a")>>,
                        outputs |-> <<Out("addr2", 0), Out("addr3", 0)>>]>>) :
          h \in 1..2}
  \cup {CustomBlock(1, <<>>, WrongId), TestBlock(1, <<>>)}

LegacyAddresses == {"addr1", "addr2", "addr3", "addr4", "addr5"}

\* history holds the POST /blocks requests answered so far
LegacyInit ==
  /\ db \in {LegacyTables(TRUE), LegacyTables(FALSE)}
  /\ call = NoCall
  /\ history = <<>>
  /\ tasks = [t \in Tasks |-> IdleTask]

BlocksRoute(block) ==
  /\ call.op = "none"
  /\ Len(history) < MaxPosts
  /\ LET reply == blocksRoute(db, block) IN
     /\ db' = reply.db
     /\ call' = [op |-> "blocksRoute", arg |-> block, before |-> db,
                 status |-> reply.status, message |-> reply.message]
     /\ history' = Append(history, [body |-> block, status |-> reply.status])
  /\ UNCHANGED tasks

BalancesRoute(address) ==
  /\ call.op = "none"
  /\ LET reply == balancesRoute(db, address) IN
     call' = [op |-> "balancesRoute", arg |-> address, before |-> db,
              status |-> reply.status, message |-> reply.message]
  /\ UNCHANGED <<db, history, tasks>>

RollbackRoute(height) ==
  /\ call.op = "none"
  /\ LET reply == rollbackRoute(db, height) IN
     /\ db' = reply.db
     /\ call' = [op |-> "rollbackRoute", arg |-> height, before |-> db,
                 status |-> reply.status, message |-> reply.message]
  /\ UNCHANGED <<history, tasks>>

LegacyNext ==
  \/ \E block \in LegacyBlockInputs : BlocksRoute(block)
  \/ \E address \in LegacyAddresses : BalancesRoute(address)
  \/ \E height \in 0..MaxHeight : RollbackRoute(height)
  \/ Return

LegacySpec == LegacyInit /\ [][LegacyNext]_vars

(***************************************************************************)
(* Calls with arguments of any type                                        *)
(***************************************************************************)
\* heights callers pass to rollbackToHeight
HeightArguments ==
  {Number(h) : h \in (0 - 1)..MaxHeight}
  \cup {Tenths(t) : t \in {0 - 5, 5, 15, 25}}
  \cup {NaN, JsNull, Undefined, String("invalid"), String("1"), Boolean(TRUE),
        Object(<<>>), Array(<<>>)}

\* a block, a transaction, an input and an output that pass the schema guard
GoodInput == [txId |-> String("a"), index |-> Number(0)]

GoodOutput == [address |-> String("addr1"), value |-> Number(0)]

GoodTransaction ==
  [id |-> String("b"), inputs |-> Array(<<Object(GoodInput)>>),
   outputs |-> Array(<<Object(GoodOutput)>>)]

GoodBlock ==
  [id |-> String("block1"), height |-> Number(1),
   transactions |-> Array(<<Object(GoodTransaction)>>)]

\* the object with one property replaced, and with one property missing
With(fields, name, v) == Object([fields EXCEPT ![name] = v])

Without(fields, name) == Object([f \in DOMAIN fields \ {name} |-> fields[f]])

\* values that are no non-empty string, no number wanted, no array, no object
NoStrings == {String(""), Number(1), JsNull, Undefined}

OtherNumbers == {Number(0 - 1), Tenths(0 - 5), Tenths(5), Tenths(15), NaN,
                 String("not_a_number"), JsNull, Undefined}

NoArrays == {String("not_an_array"), Object(<<>>), JsNull, Undefined}

NoObjects == {JsNull, Undefined, Number(0), Number(1), String(""), String("x"),
              Boolean(FALSE)}

InputArguments ==
  {Object(GoodInput), Without(GoodInput, "txId"), Without(GoodInput, "index")}
  \cup NoObjects
  \cup {With(GoodInput, "txId", v) : v \in NoStrings}
  \cup {With(GoodInput, "index", v) : v \in OtherNumbers \cup {Number(1)}}

OutputArguments ==
  {Object(GoodOutput), Without(GoodOutput, "address"), Without(GoodOutput, "value")}
  \cup NoObjects
  \cup {With(GoodOutput, "address", v) : v \in NoStrings}
  \cup {With(GoodOutput, "value", v) : v \in OtherNumbers \cup {Number(1)}}

TransactionArguments ==
  {Object(GoodTransaction)}
  \cup NoObjects \cup {Array(<<>>)}
  \cup {Without(GoodTransaction, f) : f \in {"id", "inputs", "outputs"}}
  \cup {With(GoodTransaction, "id", v) : v \in NoStrings}
  \cup {With(GoodTransaction, f, v) : f \in {"inputs", "outputs"}, v \in NoArrays}
  \cup {With(GoodTransaction, "inputs", Array(ins)) :
          ins \in {<<>>} \cup {<<i>> : i \in InputArguments}
                  \cup {<<Object(GoodInput), i>> : i \in InputArguments}}
  \cup {With(GoodTransaction, "outputs", Array(outs)) :
          outs \in {<<>>} \cup {<<o>> : o \in OutputArguments}
                   \cup {<<Object(GoodOutput), o>> : o \in OutputArguments}}

\* what callers pass to validateBlockSchema
DataArguments ==
  {Object(GoodBlock)}
  \cup NoObjects \cup {Array(<<>>)}
  \cup {Without(GoodBlock, f) : f \in {"id", "height", "transactions"}}
  \cup {With(GoodBlock, "id", v) : v \in NoStrings}
  \cup {With(GoodBlock, "height", v) : v \in OtherNumbers \cup {Number(0), Number(2)}}
  \cup {With(GoodBlock, "transactions", v) : v \in NoArrays}
  \cup {With(GoodBlock, "transactions", Array(txs)) :
          txs \in {<<>>} \cup {<<tx>> : tx \in TransactionArguments}
                  \cup {<<Object(GoodTransaction), tx>> : tx \in TransactionArguments}}

\* validateBlockSchema(data)
ValidateBlockSchemaCall(data) ==
  /\ call.op = "none"
  /\ LET r == validateBlockSchema(data) IN
     call' = [op |-> "validateBlockSchema", arg |-> data, before |-> db,
              success |-> r.isValid, error |-> r.error]
  /\ UNCHANGED <<db, history, tasks>>

\* await indexerService.rollbackToHeight(height) with any height
RollbackToHeightCall(height) ==
  /\ call.op = "none"
  /\ LET r == rollbackToHeight(db, height) IN
     /\ db' = r.db
     /\ call' = [op |-> "rollbackToHeight", arg |-> height, before |-> db,
                 success |-> r.success, error |-> r.error,
                 storeCalls |-> r.storeCalls]
     /\ history' = IF r.success
                   THEN Restrict(history, {k \in DOMAIN history : 10 * k <= height.tenths})
                   ELSE history
     /\ UNCHANGED tasks

\* the chain grows by empty blocks between the calls
ArgumentNext ==
  \/ \E h \in 1..MaxHeight : ProcessBlock(TestBlock(h, <<>>))
  \/ \E height \in HeightArguments : RollbackToHeightCall(height)
  \/ \E data \in DataArguments : ValidateBlockSchemaCall(data)
  \/ Return

ArgumentSpec == Init /\ [][ArgumentNext]_vars

(***************************************************************************)
(* The same calls, query by query.  The code between two awaits runs       *)
(* without interruption (one JavaScript thread), so a step of a task is    *)
(* one store query together with the code up to the next query.            *)
(*                                                                         *)
(* PostgreSQL, READ COMMITTED: pool.query reads see the committed store    *)
(* db; a statement of a BEGIN ... COMMIT transaction sees db with the      *)
(* transaction's own writes (log) applied; a statement that meets a row    *)
(* or a unique key written by another open transaction waits for that      *)
(* transaction to end; COMMIT installs the log, ROLLBACK discards it.      *)
(***************************************************************************)
\* the message of a query that fails for a reason outside the data (the
\* connection is lost)
IoError == "Connection terminated unexpectedly"

OutputKey(o) == [tx_id |-> o.tx_id, output_index |-> o.output_index]

\* the statements of Database.saveBlock between BEGIN and COMMIT, in order
RECURSIVE OutputStatements(_, _, _)
OutputStatements(tx, height, i) ==
  IF i > Len(tx.outputs) THEN <<>>
  ELSE <<[stmt |-> "INSERT outputs",
          row |-> [tx_id |-> tx.id, output_index |-> i - 1,
                   address |-> tx.outputs[i].address,
                   value |-> tx.outputs[i].value,
                   spent |-> FALSE, spent_in_tx |-> Null,
                   block_height |-> height]]>>
       \o OutputStatements(tx, height, i + 1)

RECURSIVE InputStatements(_, _)
InputStatements(tx, i) ==
  IF i > Len(tx.inputs) THEN <<>>
  ELSE <<[stmt |-> "UPDATE spent",
          key |-> [tx_id |-> tx.inputs[i].txId, output_index |-> tx.inputs[i].index],
          by |-> tx.id]>>
       \o InputStatements(tx, i + 1)

RECURSIVE TransactionStatements(_, _)
TransactionStatements(block, k) ==
  IF k > Len(block.transactions) THEN <<>>
  ELSE LET tx == block.transactions[k] IN
       <<[stmt |-> "INSERT transactions",
          row |-> [id |-> tx.id, block_id |-> block.id,
                   block_height |-> block.height, data |-> tx]]>>
       \o OutputStatements(tx, block.height, 1)
       \o InputStatements(tx, 1)
       \o TransactionStatements(block, k + 1)

SaveBlockStatements(block) ==
  <<[stmt |-> "INSERT blocks",
     row |-> [id |-> block.id, height |-> block.height, data |-> block]]>>
  \o TransactionStatements(block, 1)

\* "for (const row of spentOutputs.rows)": one UPDATE per selected key
RECURSIVE UnmarkStatements(_)
UnmarkStatements(keys) ==
  IF keys = {} THEN <<>>
  ELSE LET key == CHOOSE x \in keys : TRUE
       IN  <<[stmt |-> "UPDATE unspent", key |-> key]>>
           \o UnmarkStatements(keys \ {key})

\* the statements of Database.rollbackToHeight after its SELECT
RollbackStatements(keys, height) ==
  UnmarkStatements(keys)
  \o <<[stmt |-> "DELETE outputs", height |-> height],
       [stmt |-> "DELETE transactions", height |-> height],
       [stmt |-> "DELETE blocks", height |-> height]>>

\* one write of a transaction applied to a store
ApplyWrite(S, w) ==
  CASE w.w = "insert blocks" -> [S EXCEPT !.blocks = @ \cup {w.row}]
    [] w.w = "insert transactions" -> [S EXCEPT !.transactions = @ \cup {w.row}]
    [] w.w = "insert outputs" -> [S EXCEPT !.outputs = @ \cup {w.row}]
    [] w.w = "update outputs" ->
         [S EXCEPT !.outputs =
            {IF OutputKey(o) = w.key
             THEN [o EXCEPT !.spent = w.spent, !.spent_in_tx = w.spent_in_tx]
             ELSE o : o \in @}]
    [] w.w = "delete outputs" ->
         [S EXCEPT !.outputs = {o \in @ : OutputKey(o) \notin w.keys}]
    [] w.w = "delete transactions" ->
         [S EXCEPT !.transactions = {t \in @ : t.id \notin w.keys}]
    [] w.w = "delete blocks" ->
         [S EXCEPT !.blocks = {b \in @ : b.id \notin w.keys}]

\* the store with the writes of a transaction applied in order
RECURSIVE ApplyLog(_, _)
ApplyLog(S, log) ==
  IF log = <<>> THEN S ELSE ApplyLog(ApplyWrite(S, Head(log)), Tail(log))

Writes(log, kind) == {log[n] : n \in {m \in 1..Len(log) : log[m].w = kind}}

\* keys an open transaction holds: rows it inserted, and stored rows it
\* updated or deleted (row locks)
InsertedBlocks(log) == {w.row : w \in Writes(log, "insert blocks")}

InsertedTransactionIds(log) == {w.row.id : w \in Writes(log, "insert transactions")}

InsertedOutputKeys(log) == {OutputKey(w.row) : w \in Writes(log, "insert outputs")}

LockedOutputKeys(log) ==
  {w.key : w \in Writes(log, "update outputs")}
  \cup UNION {w.keys : w \in Writes(log, "delete outputs")}

DeletedTransactionIds(log) == UNION {w.keys : w \in Writes(log, "delete transactions")}

DeletedBlockIds(log) == UNION {w.keys : w \in Writes(log, "delete blocks")}

\* the logs of the transactions other tasks have open
OpenLogs(t) ==
  {tasks[u].log : u \in {v \in Tasks \ {t} : tasks[v].pc \in {"transaction", "failed"}}}

\* statement st of task t meets a key or a row another open transaction wrote
Waits(t, st) ==
  \E log \in OpenLogs(t) :
    CASE st.stmt = "INSERT blocks" ->
           \/ \E b \in InsertedBlocks(log) :
                b.id = st.row.id \/ b.height = st.row.height
           \/ \E b \in db.blocks :
                /\ b.id = st.row.id \/ b.height = st.row.height
                /\ b.id \in DeletedBlockIds(log)
      [] st.stmt = "INSERT transactions" ->
           st.row.id \in InsertedTransactionIds(log) \cup DeletedTransactionIds(log)
      [] st.stmt = "INSERT outputs" ->
           OutputKey(st.row) \in InsertedOutputKeys(log) \cup LockedOutputKeys(log)
      [] st.stmt \in {"UPDATE spent", "UPDATE unspent"} ->
           st.key \in LockedOutputKeys(log)
      [] st.stmt = "SELECT spent" -> FALSE
      [] st.stmt = "DELETE outputs" ->
           \E o \in db.outputs :
             o.block_height > st.height /\ OutputKey(o) \in LockedOutputKeys(log)
      [] st.stmt = "DELETE transactions" ->
           \E r \in db.transactions :
             r.block_height > st.height /\ r.id \in DeletedTransactionIds(log)
      [] st.stmt = "DELETE blocks" ->
           \E b \in db.blocks :
             b.height > st.height /\ b.id \in DeletedBlockIds(log)

Wrote(writes) == [error |-> "", writes |-> writes, then |-> <<>>]

Violates(constraint) ==
  [error |-> DuplicateKey(constraint), writes |-> <<>>, then |-> <<>>]

\* INSERT INTO blocks with "height INTEGER NOT NULL", not UNIQUE
InsertBlockRow_HeightNotUnique(V, row) ==
  IF \E b \in V.blocks : b.id = row.id THEN Violates("blocks_pkey")
  ELSE Wrote(<<[w |-> "insert blocks", row |-> row]>>)

\* INSERT INTO blocks: id is the primary key, height is UNIQUE
InsertBlockRow(V, row) ==
  IF \E b \in V.blocks : b.id = row.id THEN Violates("blocks_pkey")
  ELSE IF \E b \in V.blocks : b.height = row.height
       THEN Violates("blocks_height_key")
       ELSE Wrote(<<[w |-> "insert blocks", row |-> row]>>)

\* statement st executed on V, the store as its transaction sees it: the
\* error it raises ("" for none), the writes it adds to the transaction and
\* the statements its result makes the caller issue next
Execute(V, st) ==
  CASE st.stmt = "INSERT blocks" -> InsertBlockRow(V, st.row)
    [] st.stmt = "INSERT transactions" ->
         IF \E r \in V.transactions : r.id = st.row.id
         THEN Violates("transactions_pkey")
         ELSE Wrote(<<[w |-> "insert transactions", row |-> st.row]>>)
    [] st.stmt = "INSERT outputs" ->
         IF \E o \in V.outputs : OutputKey(o) = OutputKey(st.row)
         THEN Violates("outputs_pkey")
         ELSE Wrote(<<[w |-> "insert outputs", row |-> st.row]>>)
    [] st.stmt = "UPDATE spent" ->
         IF \E o \in V.outputs : OutputKey(o) = st.key
         THEN Wrote(<<[w |-> "update outputs", key |-> st.key,
                       spent |-> TRUE, spent_in_tx |-> st.by]>>)
         ELSE Wrote(<<>>)
    [] st.stmt = "UPDATE unspent" ->
         IF \E o \in V.outputs : OutputKey(o) = st.key
         THEN Wrote(<<[w |-> "update outputs", key |-> st.key,
                       spent |-> FALSE, spent_in_tx |-> Null]>>)
         ELSE Wrote(<<>>)
    [] st.stmt = "SELECT spent" ->
         [error |-> "", writes |-> <<>>,
          then |-> RollbackStatements(
                     {OutputKey(o) : o \in SpentOutputsAbove(V, st.height)},
                     st.height)]
    [] st.stmt = "DELETE outputs" ->
         Wrote(<<[w |-> "delete outputs",
                  keys |-> {OutputKey(o) :
                              o \in {x \in V.outputs : x.block_height > st.height}}]>>)
    [] st.stmt = "DELETE transactions" ->
         Wrote(<<[w |-> "delete transactions",
                  keys |-> {r.id :
                              r \in {x \in V.transactions : x.block_height > st.height}}]>>)
    [] st.stmt = "DELETE blocks" ->
         Wrote(<<[w |-> "delete blocks",
                  keys |-> {b.id : b \in {x \in V.blocks : x.height > st.height}}]>>)

\* the text of the query a statement sends
QueryName(st) ==
  IF st.stmt \in {"UPDATE spent", "UPDATE unspent"} THEN "UPDATE outputs"
  ELSE IF st.stmt = "SELECT spent" THEN "SELECT outputs" ELSE st.stmt

\* a call of task t: its operation and argument, the committed store when it
\* started (before), the validator's position (k, i, inputSum), the
\* statements its transaction has still to send (todo), the transaction's
\* uncommitted writes (log), the queries it has sent so far (trace), whether a
\* query of it was failed from outside (fault), and how it ended; for a read
\* call the number it returned (value) and whether another caller's
\* transaction had uncommitted writes when its query ran (overlaps)
NewTask(op, arg, pc) ==
  [pc |-> pc, op |-> op, arg |-> arg, before |-> db,
   k |-> 1, i |-> 1, inputSum |-> 0,
   todo |-> <<>>, log |-> <<>>, trace |-> <<>>, fault |-> FALSE,
   outcome |-> "pending", success |-> FALSE, error |-> "",
   value |-> 0, overlaps |-> FALSE]

\* the call returns {success, error} to its caller
Returned(task, success, error) ==
  [task EXCEPT !.pc = "done", !.outcome = "returned",
               !.success = success, !.error = error]

\* processBlock with a catch block that throws the error on
ProcessBlockCatch_Rethrows(task, message) ==
  [task EXCEPT !.pc = "done", !.outcome = "raised", !.error = message]

\* the catch block of IndexerService.processBlock
ProcessBlockCatch(task, message) == Returned(task, FALSE, message)

\* the catch block of IndexerService.rollbackToHeight
RollbackToHeightCatch(task, message) == Returned(task, FALSE, message)

\* an error thrown by a store query leaves the call: the service methods
\* catch it, validateBlock and saveBlock called directly pass it on
Raised(task, message) ==
  CASE task.op = "processBlock" -> ProcessBlockCatch(task, message)
    [] task.op = "rollbackToHeight" -> RollbackToHeightCatch(task, message)
    [] OTHER -> [task EXCEPT !.pc = "done", !.outcome = "raised",
                             !.error = message]

\* "const client = await this.pool.connect()" comes next
EnterTransaction(task, statements) ==
  [task EXCEPT !.pc = "connect", !.todo = statements]

\* validateBlock has returned its verdict to processBlock, or to its caller
Validated(task, validation) ==
  IF task.op = "processBlock" /\ validation.isValid
  THEN EnterTransaction(task, SaveBlockStatements(task.arg))
  ELSE Returned(task, validation.isValid, validation.error)

\* validateTransaction from input i of transaction k on, as far as the next
\* getOutput query: the loops over the outputs and the comparison of the
\* sums need no query
RECURSIVE ValidateUpToQuery(_, _, _, _)
ValidateUpToQuery(task, k, i, inputSum) ==
  IF k > Len(task.arg.transactions) THEN Validated(task, Valid)
  ELSE LET tx == task.arg.transactions[k] IN
       IF i <= Len(tx.inputs)
       THEN [task EXCEPT !.pc = "getOutput", !.k = k, !.i = i,
                         !.inputSum = inputSum]
       ELSE LET outs == ValidateOutputs(tx.outputs, 1, 0) IN
            IF ~outs.isValid THEN Validated(task, Invalid(outs.error))
            ELSE IF inputSum # outs.sum
                 THEN Validated(task,
                        Invalid("Input sum (" \o NumberToString(inputSum)
                                \o ") does not equal output sum ("
                                \o NumberToString(outs.sum) \o ")"))
                 ELSE ValidateUpToQuery(task, k + 1, 1, 0)

Sent(task, query) == [task EXCEPT !.trace = Append(@, query)]

\* processBlock without the schema guard
StartProcessBlock_NoSchemaGuard(t, blockData) ==
  /\ tasks[t].pc = "idle"
  /\ tasks' = [tasks EXCEPT ![t] =
                 NewTask("processBlock", blockData, "getCurrentHeight")]
  /\ UNCHANGED <<db, call, history>>

\* indexerService.processBlock(blockData) is called: the schema guard runs
StartProcessBlock(t, blockData) ==
  /\ tasks[t].pc = "idle"
  /\ LET task == NewTask("processBlock", blockData, "getCurrentHeight")
         schemaValidation == ValidateBlockSchema(blockData)
     IN  tasks' = [tasks EXCEPT ![t] =
                     IF ~schemaValidation.isValid
                     THEN Returned(task, FALSE, schemaValidation.error)
                     ELSE task]
  /\ UNCHANGED <<db, call, history>>

\* validator.validateBlock(block) is called directly
StartValidateBlock(t, block) ==
  /\ tasks[t].pc = "idle"
  /\ tasks' = [tasks EXCEPT ![t] = NewTask("validateBlock", block, "getCurrentHeight")]
  /\ UNCHANGED <<db, call, history>>

\* db.saveBlock(block) is called directly
StartSaveBlock(t, block) ==
  /\ tasks[t].pc = "idle"
  /\ tasks' = [tasks EXCEPT ![t] =
                 EnterTransaction(NewTask("saveBlock", block, "connect"),
                                  SaveBlockStatements(block))]
  /\ UNCHANGED <<db, call, history>>

\* indexerService.rollbackToHeight(height) is called
StartRollbackToHeight(t, height) ==
  /\ tasks[t].pc = "idle"
  /\ LET task == NewTask("rollbackToHeight", height, "getCurrentHeight")
     IN  tasks' = [tasks EXCEPT ![t] =
                     IF height < 0
                     THEN Returned(task, FALSE, "Height must be a non-negative number")
                     ELSE task]
  /\ UNCHANGED <<db, call, history>>

\* validateBlock that checks the block id before the height
ValidatorReadsHeight_IdFirst(t) ==
  /\ tasks[t].pc = "getCurrentHeight"
  /\ tasks[t].op \in {"processBlock", "validateBlock"}
  /\ LET task == Sent(tasks[t], "getCurrentHeight")
         heightValidation == ValidateHeight(db, task.arg.height)
         idValidation == ValidateBlockId(task.arg)
     IN  tasks' = [tasks EXCEPT ![t] =
                     IF ~idValidation.isValid
                     THEN Validated(task, idValidation)
                     ELSE IF ~heightValidation.isValid
                          THEN Validated(task, heightValidation)
                          ELSE ValidateUpToQuery(task, 1, 1, 0)]
  /\ UNCHANGED <<db, call, history>>

\* "await this.db.getCurrentHeight()" of validateHeight, then validateBlockId
\* and the validation of the transactions up to the first getOutput
ValidatorReadsHeight(t) ==
  /\ tasks[t].pc = "getCurrentHeight"
  /\ tasks[t].op \in {"processBlock", "validateBlock"}
  /\ LET task == Sent(tasks[t], "getCurrentHeight")
         heightValidation == ValidateHeight(db, task.arg.height)
         idValidation == ValidateBlockId(task.arg)
     IN  tasks' = [tasks EXCEPT ![t] =
                     IF ~heightValidation.isValid
                     THEN Validated(task, heightValidation)
                     ELSE IF ~idValidation.isValid
                          THEN Validated(task, idValidation)
                          ELSE ValidateUpToQuery(task, 1, 1, 0)]
  /\ UNCHANGED <<db, call, history>>

\* a validator that marks each output spent as soon as it has read it
ValidatorReadsOutput_MarksSpent(t) ==
  /\ tasks[t].pc = "getOutput"
  /\ LET task == Sent(tasks[t], "getOutput")
         input == task.arg.transactions[task.k].inputs[task.i]
         read == ValidateInputs(db, <<input>>, 1, task.inputSum)
     IN  /\ tasks' = [tasks EXCEPT ![t] =
                        IF ~read.isValid
                        THEN Validated(task, Invalid(read.error))
                        ELSE ValidateUpToQuery(task, task.k, task.i + 1, read.sum)]
         /\ db' = IF read.isValid
                  THEN ApplyWrite(db, [w |-> "update outputs",
                                       key |-> [tx_id |-> input.txId,
                                                output_index |-> input.index],
                                       spent |-> TRUE,
                                       spent_in_tx |-> task.arg.transactions[task.k].id])
                  ELSE db
  /\ UNCHANGED <<call, history>>

\* "await this.db.getOutput(input.txId, input.index)" for input i of
\* transaction k, and the validation up to the next getOutput
ValidatorReadsOutput(t) ==
  /\ tasks[t].pc = "getOutput"
  /\ LET task == Sent(tasks[t], "getOutput")
         input == task.arg.transactions[task.k].inputs[task.i]
         read == ValidateInputs(db, <<input>>, 1, task.inputSum)
     IN  tasks' = [tasks EXCEPT ![t] =
                     IF ~read.isValid
                     THEN Validated(task, Invalid(read.error))
                     ELSE ValidateUpToQuery(task, task.k, task.i + 1, read.sum)]
  /\ UNCHANGED <<db, call, history>>

\* "await this.db.getCurrentHeight()" of rollbackToHeight and its two checks
RollbackReadsHeight(t) ==
  /\ tasks[t].pc = "getCurrentHeight"
  /\ tasks[t].op = "rollbackToHeight"
  /\ LET task == Sent(tasks[t], "getCurrentHeight")
         checked == RollbackToHeightResult(db, task.arg)
     IN  tasks' = [tasks EXCEPT ![t] =
                     IF ~checked.success
                     THEN Returned(task, FALSE, checked.error)
                     ELSE EnterTransaction(task,
                            <<[stmt |-> "SELECT spent", height |-> task.arg]>>)]
  /\ UNCHANGED <<db, call, history>>

\* getBalance with the argument check "typeof address !== 'string'" alone
StartGetBalance_AcceptsEmpty(t, address) ==
  /\ tasks[t].pc = "idle"
  /\ LET task == NewTask("getBalance", address, "getBalance")
     IN  tasks' = [tasks EXCEPT ![t] =
                     IF TypeOf(address) # "string"
                     THEN Raised(task, "Address must be a non-empty string")
                     ELSE task]
  /\ UNCHANGED <<db, call, history>>

\* indexerService.getBalance(address) is called: the argument check throws
\* inside the async method, so the caller's promise is rejected
StartGetBalance(t, address) ==
  /\ tasks[t].pc = "idle"
  /\ LET task == NewTask("getBalance", address, "getBalance")
     IN  tasks' = [tasks EXCEPT ![t] =
                     IF Falsy(address) \/ TypeOf(address) # "string"
                     THEN Raised(task, "Address must be a non-empty string")
                     ELSE task]
  /\ UNCHANGED <<db, call, history>>

\* indexerService.getCurrentHeight() is called
StartGetCurrentHeight(t) ==
  /\ tasks[t].pc = "idle"
  /\ tasks' = [tasks EXCEPT ![t] =
                 NewTask("getCurrentHeight", Undefined, "getCurrentHeight")]
  /\ UNCHANGED <<db, call, history>>

\* another caller's transaction has written and not yet ended
OthersWriting(t) == \E log \in OpenLogs(t) : log # <<>>

\* the value a read call hands to its caller
ReturnedValue(task, value, overlaps) ==
  [task EXCEPT !.pc = "done", !.outcome = "returned", !.success = TRUE,
               !.value = value, !.overlaps = overlaps]

\* a getBalance whose SELECT also sees what open transactions have written
ReadsBalance_Uncommitted(t) ==
  /\ tasks[t].pc = "getBalance"
  /\ \E V \in {db} \cup {ApplyLog(db, log) : log \in OpenLogs(t)} :
       tasks' = [tasks EXCEPT ![t] =
                   ReturnedValue(Sent(@, "getBalance"),
                                 GetBalance(V, @.arg.value), OthersWriting(t))]
  /\ UNCHANGED <<db, call, history>>

\* Database.getBalance: one SELECT through the pool, which sees the
\* committed store
ReadsBalance(t) ==
  /\ tasks[t].pc = "getBalance"
  /\ tasks' = [tasks EXCEPT ![t] =
                 ReturnedValue(Sent(@, "getBalance"),
                               GetBalance(db, @.arg.value), OthersWriting(t))]
  /\ UNCHANGED <<db, call, history>>

\* Database.getCurrentHeight called by IndexerService.getCurrentHeight: one
\* SELECT through the pool
ReadsHeight(t) ==
  /\ tasks[t].pc = "getCurrentHeight"
  /\ tasks[t].op = "getCurrentHeight"
  /\ tasks' = [tasks EXCEPT ![t] =
                 ReturnedValue(Sent(@, "getCurrentHeight"),
                               GetCurrentHeight(db), OthersWriting(t))]
  /\ UNCHANGED <<db, call, history>>

\* pool.connect() and BEGIN: the transaction is open, nothing is written
Begin(t) ==
  /\ tasks[t].pc = "connect"
  /\ tasks' = [tasks EXCEPT ![t] =
                 [Sent(Sent(@, "connect"), "BEGIN") EXCEPT !.pc = "transaction"]]
  /\ UNCHANGED <<db, call, history>>

\* statements sent outside the transaction (pool.query in place of
\* client.query): each write is committed at once
Statement_Autocommit(t) ==
  /\ tasks[t].pc = "transaction"
  /\ tasks[t].todo # <<>>
  /\ ~Waits(t, Head(tasks[t].todo))
  /\ LET st == Head(tasks[t].todo)
         task == Sent(tasks[t], QueryName(st))
         r == Execute(db, st)
     IN  /\ tasks' = [tasks EXCEPT ![t] =
                        IF r.error # ""
                        THEN [task EXCEPT !.pc = "failed", !.error = r.error]
                        ELSE [task EXCEPT !.todo = r.then \o Tail(@)]]
         /\ db' = ApplyLog(db, r.writes)
  /\ UNCHANGED <<call, history>>

\* the next statement of the open transaction: it waits while another open
\* transaction holds what it touches, then it writes into the log, or raises
\* and the catch block is entered
Statement(t) ==
  /\ tasks[t].pc = "transaction"
  /\ tasks[t].todo # <<>>
  /\ ~Waits(t, Head(tasks[t].todo))
  /\ LET st == Head(tasks[t].todo)
         task == Sent(tasks[t], QueryName(st))
         r == Execute(ApplyLog(db, task.log), st)
     IN  tasks' = [tasks EXCEPT ![t] =
                     IF r.error # ""
                     THEN [task EXCEPT !.pc = "failed", !.error = r.error]
                     ELSE [task EXCEPT !.log = @ \o r.writes,
                                       !.todo = r.then \o Tail(@)]]
  /\ UNCHANGED <<db, call, history>>

\* COMMIT, client.release() and the return to the caller
Commit(t) ==
  /\ tasks[t].pc = "transaction"
  /\ tasks[t].todo = <<>>
  /\ db' = ApplyLog(db, tasks[t].log)
  /\ tasks' = [tasks EXCEPT ![t] =
                 Returned([Sent(Sent(@, "COMMIT"), "release") EXCEPT !.log = <<>>],
                          TRUE, "")]
  /\ UNCHANGED <<call, history>>

\* a catch block without the finally block: the client stays checked out
Rollback_NoRelease(t) ==
  /\ tasks[t].pc = "failed"
  /\ tasks' = [tasks EXCEPT ![t] =
                 Raised([Sent(@, "ROLLBACK") EXCEPT !.log = <<>>], @.error)]
  /\ UNCHANGED <<db, call, history>>

\* a catch block that ends the transaction with COMMIT
Rollback_KeepsWrites(t) ==
  /\ tasks[t].pc = "failed"
  /\ db' = ApplyLog(db, tasks[t].log)
  /\ tasks' = [tasks EXCEPT ![t] =
                 Raised([Sent(Sent(@, "COMMIT"), "release") EXCEPT !.log = <<>>],
                        @.error)]
  /\ UNCHANGED <<call, history>>

\* the catch and finally blocks of saveBlock and of the store's
\* rollbackToHeight: ROLLBACK, client.release(), and the error is thrown on
Rollback(t) ==
  /\ tasks[t].pc = "failed"
  /\ tasks' = [tasks EXCEPT ![t] =
                 Raised([Sent(Sent(@, "ROLLBACK"), "release") EXCEPT !.log = <<>>],
                        @.error)]
  /\ UNCHANGED <<db, call, history>>

\* a query fails from outside (the connection is lost): a read of the
\* validator or of rollbackToHeight throws, pool.connect() throws before the
\* try block, a statement of a transaction enters the catch block
QueryFails(t) ==
  /\ tasks[t].pc \in {"getCurrentHeight", "getOutput", "getBalance", "connect",
                     "transaction"}
  /\ tasks[t].pc = "transaction" => tasks[t].todo # <<>>
  /\ tasks' = [tasks EXCEPT ![t] =
                 IF @.pc = "transaction"
                 THEN [Sent(@, QueryName(Head(@.todo)))
                         EXCEPT !.pc = "failed", !.fault = TRUE, !.error = IoError]
                 ELSE Raised([Sent(@, @.pc) EXCEPT !.fault = TRUE], IoError)]
  /\ UNCHANGED <<db, call, history>>

\* the caller of a finished call goes on
Finish(t) ==
  /\ tasks[t].pc = "done"
  /\ tasks' = [tasks EXCEPT ![t] = IdleTask]
  /\ UNCHANGED <<db, call, history>>

(***************************************************************************)
(* One caller, query by query, with queries that may fail from outside     *)
(***************************************************************************)
\* a transaction that creates nothing of value, one that mints a unit
QueryTransactions ==
  [id : {"a", "b"}, inputs : {<<>>, <<Ref("a")>>},
   outputs : {<<Out("addr1", 0)>>, <<Out("addr2", 1)>>}]

QueryTransactionLists ==
  {<<>>} \cup {<<t>> : t \in QueryTransactions}
         \cup {<<[id |-> "b", inputs |-> <<>>, outputs |-> <<Out("addr1", 0)>>],
                 [id |-> x, inputs |-> <<>>, outputs |-> <<Out("addr1", 0)>>]>> :
                 x \in {"a", "c"}}

\* blocks submitted to processBlock: height 0 fails the schema guard
QueryBlockInputs ==
  {TestBlock(h, txs) : h \in 0..2, txs \in QueryTransactionLists}
  \cup {CustomBlock(h, <<>>, WrongId) : h \in 1..3}

\* blocks handed to validateBlock directly: the Block type does not keep an
\* output value from being negative
ValidatorBlockInputs ==
  QueryBlockInputs
  \cup {TestBlock(h, <<[id |-> "b", inputs |-> ins,
                        outputs |-> <<Out("addr1", 0 - 1)>>]>>) :
          h \in 1..2, ins \in {<<>>, <<Ref("a")>>, <<Ref("c")>>}}
  \cup {TestBlock(3, <<[id |-> "c", inputs |-> ins,
                        outputs |-> <<Out("addr1", 0)>>]>>) :
          ins \in {<<Ref("a"), Ref("c")>>, <<Ref("c"), Ref("a")>>}}
  \cup {TestBlock(h, txs) :
          h \in 1..3,
          txs \in {<<[id |-> "b", inputs |-> <<Ref("c")>>, outputs |-> <<Out("addr1", 0)>>],
                     [id |-> "c", inputs |-> <<>>, outputs |-> <<Out("addr2", 1)>>]>>,
                   <<[id |-> "c", inputs |-> <<>>, outputs |-> <<Out("addr2", 1)>>],
                     [id |-> "b", inputs |-> <<Ref("c")>>, outputs |-> <<Out("addr1", 0)>>]>>}}

\* what callers pass to getBalance: addresses, one that never received an
\* output, the empty string, and values that are no strings
AddressInputs ==
  {String(a) : a \in Addresses \cup {"nonexistent", ""}}
  \cup {JsNull, Undefined, Number(123), Number(0), NaN, Boolean(TRUE),
        Object(<<>>), Array(<<>>), Array(<<String("addr1")>>)}

\* blocks handed to saveBlock directly
SavedBlockInputs ==
  {TestBlock(h, txs) : h \in 1..2, txs \in QueryTransactionLists}

QueryNext ==
  \/ \E blockData \in QueryBlockInputs : StartProcessBlock(1, blockData)
  \/ \E block \in ValidatorBlockInputs : StartValidateBlock(1, block)
  \/ \E block \in SavedBlockInputs :
        /\ block.height <= GetCurrentHeight(db) + 1
        /\ StartSaveBlock(1, block)
  \/ \E height \in (0 - 1)..3 : StartRollbackToHeight(1, height)
  \/ \E address \in AddressInputs : StartGetBalance(1, address)
  \/ StartGetCurrentHeight(1)
  \/ ValidatorReadsHeight(1)
  \/ ValidatorReadsOutput(1)
  \/ RollbackReadsHeight(1)
  \/ ReadsBalance(1)
  \/ ReadsHeight(1)
  \/ Begin(1)
  \/ Statement(1)
  \/ Commit(1)
  \/ Rollback(1)
  \/ QueryFails(1)
  \/ Finish(1)

QuerySpec == Init /\ [][QueryNext]_vars

(***************************************************************************)
(* Two callers whose queries interleave                                    *)
(***************************************************************************)
\* the chain the callers find: block 1 creates the output a:0 (of value 0, the
\* only value a zero-input transaction is accepted with), block 2 spends it
\* into b:0
ChainBlock(h) ==
  IF h = 1
  THEN TestBlock(1, <<[id |-> "a", inputs |-> <<>>, outputs |-> <<Out("addr1", 0)>>]>>)
  ELSE TestBlock(2, <<[id |-> "b", inputs |-> <<Ref("a")>>,
                       outputs |-> <<Out("addr2", 0)>>]>>)

RECURSIVE Chain(_)
Chain(n) ==
  IF n = 0 THEN EmptyDb ELSE ProcessBlockResult(Chain(n - 1), ChainBlock(n)).db

\* a store whose first block was saved by db.saveBlock directly, as the
\* store's own tests do: its output a:0 holds two units
FundedBlock ==
  TestBlock(1, <<[id |-> "a", inputs |-> <<>>, outputs |-> <<Out("addr1", 2)>>]>>)

Funded == SaveBlock(EmptyDb, FundedBlock).db

ConcurrentInit ==
  /\ \/ \E n \in 0..2 :
          /\ db = Chain(n)
          /\ history = [h \in 0..n |-> Chain(h)]
     \/ /\ db = Funded
        /\ history = (0 :> EmptyDb) @@ (1 :> Funded)
  /\ call = NoCall
  /\ tasks = [t \in Tasks |-> IdleTask]

ConcurrentTransactionLists ==
  {<<>>} \cup {<<[id |-> x, inputs |-> ins, outputs |-> <<Out("addr1", 0)>>]>> :
                 x \in {"b", "c"}, ins \in {<<>>, <<Ref("a")>>, <<Ref("b")>>}}

\* the last block splits a:0 into two outputs of the same address
ConcurrentBlockInputs ==
  {TestBlock(h, txs) : h \in 1..3, txs \in ConcurrentTransactionLists}
  \cup {TestBlock(2, <<[id |-> "b", inputs |-> <<Ref("a")>>,
                        outputs |-> <<Out("addr1", 1), Out("addr1", 1)>>]>>)}

\* each caller makes one call
ConcurrentNext ==
  \E t \in Tasks :
    \/ \E blockData \in ConcurrentBlockInputs : StartProcessBlock(t, blockData)
    \/ \E height \in 0..2 : StartRollbackToHeight(t, height)
    \/ \E a \in Addresses : StartGetBalance(t, String(a))
    \/ StartGetCurrentHeight(t)
    \/ ValidatorReadsHeight(t)
    \/ ValidatorReadsOutput(t)
    \/ RollbackReadsHeight(t)
    \/ ReadsBalance(t)
    \/ ReadsHeight(t)
    \/ Begin(t)
    \/ Statement(t)
    \/ Commit(t)
    \/ Rollback(t)

ConcurrentSpec == ConcurrentInit /\ [][ConcurrentNext]_vars

(***************************************************************************)
(* The two transactions of the store, statement by statement: saveBlock    *)
(* and rollbackToHeight called on the store by two callers, with BEGIN,    *)
(* COMMIT and ROLLBACK as statements that may fail like any other.  Every  *)
(* query is answered in the end (with a result or an error), and the       *)
(* server ends a wait of two transactions for each other by failing a      *)
(* statement of one of them; the pool (10 clients by default) has a client *)
(* for each of the two callers.                                            *)
(***************************************************************************)
\* db.rollbackToHeight(height) is called directly
StartRollbackStore(t, height) ==
  /\ tasks[t].pc = "idle"
  /\ tasks' = [tasks EXCEPT ![t] =
                 EnterTransaction(NewTask("storeRollback", height, "connect"),
                                  <<[stmt |-> "SELECT spent", height |-> height]>>)]
  /\ UNCHANGED <<db, call, history>>

\* pool.connect() gives a client and "await client.query('BEGIN')" throws:
\* the catch block is entered
BeginFails(t) ==
  /\ tasks[t].pc = "connect"
  /\ tasks' = [tasks EXCEPT ![t] =
                 [Sent(Sent(@, "connect"), "BEGIN")
                    EXCEPT !.pc = "failed", !.fault = TRUE, !.error = IoError]]
  /\ UNCHANGED <<db, call, history>>

\* "await client.query('COMMIT')" throws, the server having aborted the
\* transaction: the catch block is entered
CommitFails(t) ==
  /\ tasks[t].pc = "transaction"
  /\ tasks[t].todo = <<>>
  /\ tasks' = [tasks EXCEPT ![t] =
                 [Sent(@, "COMMIT")
                    EXCEPT !.pc = "failed", !.fault = TRUE, !.error = IoError]]
  /\ UNCHANGED <<db, call, history>>

\* "await client.query('ROLLBACK')" of the catch block throws (the connection
\* is gone, and with it the transaction): the finally block releases the
\* client and the error of the ROLLBACK is what the caller gets
RollbackFails(t) ==
  /\ tasks[t].pc = "failed"
  /\ tasks' = [tasks EXCEPT ![t] =
                 Raised([Sent(Sent(@, "ROLLBACK"), "release")
                           EXCEPT !.log = <<>>, !.fault = TRUE],
                        IoError)]
  /\ UNCHANGED <<db, call, history>>

\* the next statement of task t waits for a transaction that is open
WaitsForLock(t) ==
  /\ tasks[t].pc = "transaction"
  /\ tasks[t].todo # <<>>
  /\ Waits(t, Head(tasks[t].todo))

\* two transactions wait for each other: the server fails the statement one
\* of them waits in, and its catch block is entered
DeadlockDetected(t) ==
  /\ WaitsForLock(t)
  /\ \E u \in Tasks \ {t} : WaitsForLock(u)
  /\ tasks' = [tasks EXCEPT ![t] =
                 [Sent(@, QueryName(Head(@.todo)))
                    EXCEPT !.pc = "failed", !.error = "deadlock detected"]]
  /\ UNCHANGED <<db, call, history>>

\* the store the two callers find: block 1, or blocks 1 and 2
TransactionInit ==
  /\ \E n \in 1..2 :
       /\ db = Chain(n)
       /\ history = [h \in 0..n |-> Chain(h)]
  /\ call = NoCall
  /\ tasks = [t \in Tasks |-> IdleTask]

\* blocks handed to saveBlock: none or two transactions, in either order, or
\* one transaction that spends the output of block 1
TransactionBlockInputs ==
  {TestBlock(h, txs) :
     h \in 2..3,
     txs \in {<<>>,
              <<[id |-> "c", inputs |-> <<Ref("a")>>, outputs |-> <<Out("addr1", 0)>>]>>,
              <<[id |-> "b", inputs |-> <<>>, outputs |-> <<Out("addr1", 0)>>],
                [id |-> "c", inputs |-> <<>>, outputs |-> <<Out("addr1", 0)>>]>>,
              <<[id |-> "c", inputs |-> <<>>, outputs |-> <<Out("addr1", 0)>>],
                [id |-> "b", inputs |-> <<>>, outputs |-> <<Out("addr1", 0)>>]>>}}

\* each caller makes one call
TransactionNext ==
  \E t \in Tasks :
    \/ \E block \in TransactionBlockInputs : StartSaveBlock(t, block)
    \/ \E height \in 0..1 : StartRollbackStore(t, height)
    \/ Begin(t)
    \/ BeginFails(t)
    \/ Statement(t)
    \/ QueryFails(t)
    \/ DeadlockDetected(t)
    \/ Commit(t)
    \/ CommitFails(t)
    \/ Rollback(t)
    \/ RollbackFails(t)

\* fairness: what the server and the event loop owe a call, a query that can
\* be answered is answered
TransactionSpec ==
  /\ TransactionInit
  /\ [][TransactionNext]_vars
  /\ \A t \in Tasks :
       WF_vars(Begin(t) \/ Statement(t) \/ DeadlockDetected(t)
               \/ Commit(t) \/ Rollback(t))

(***************************************************************************)
(* Vocabulary of the properties                                            *)
(***************************************************************************)
\* a value of the Block type: what the schema guard lets through
IsBlock(b) ==
  /\ b.id # ""
  /\ b.height >= 1
  /\ \A k \in 1..Len(b.transactions) :
       LET tx == b.transactions[k] IN
       /\ tx.id # ""
       /\ \A i \in 1..Len(tx.inputs) : tx.inputs[i].txId # "" /\ tx.inputs[i].index >= 0
       /\ \A i \in 1..Len(tx.outputs) : tx.outputs[i].address # "" /\ tx.outputs[i].value >= 0

\* the stored rows an input references
Referenced(S, input) ==
  {o \in S.outputs : o.tx_id = input.txId /\ o.output_index = input.index}

RefText(input) == input.txId \o ":" \o NumberToString(input.index)

RECURSIVE OutputSumFrom(_, _)
OutputSumFrom(outputs, i) ==
  IF i > Len(outputs) THEN 0 ELSE outputs[i].value + OutputSumFrom(outputs, i + 1)

\* sum of a transaction's own output values
OutputSum(tx) == OutputSumFrom(tx.outputs, 1)

RECURSIVE InputSumFrom(_, _, _)
InputSumFrom(S, inputs, i) ==
  IF i > Len(inputs) THEN 0
  ELSE SumValues(Referenced(S, inputs[i])) + InputSumFrom(S, inputs, i + 1)

\* sum of the values of the stored outputs a transaction's inputs reference
InputSum(S, tx) == InputSumFrom(S, tx.inputs, 1)

AllInputsStored(S, tx) ==
  \A i \in 1..Len(tx.inputs) : Referenced(S, tx.inputs[i]) # {}

AllInputsUnspent(S, tx) ==
  \A i \in 1..Len(tx.inputs) : \A o \in Referenced(S, tx.inputs[i]) : ~o.spent

\* a transaction that breaks no rule of the validator against store S
TxAcceptable(S, tx) ==
  /\ AllInputsStored(S, tx)
  /\ AllInputsUnspent(S, tx)
  /\ \A i \in 1..Len(tx.outputs) : tx.outputs[i].value >= 0
  /\ InputSum(S, tx) = OutputSum(tx)

\* the block has the next height and the id computed from its content
HeightAndIdRight(S, b) ==
  /\ b.height = GetCurrentHeight(S) + 1
  /\ b.id = ExpectedBlockId(b.height, b.transactions)

\* validation of block b against S gets as far as transaction k
ReachesTransaction(S, b, k) ==
  /\ HeightAndIdRight(S, b)
  /\ \A j \in 1..(k - 1) : TxAcceptable(S, b.transactions[j])

\* the unspent outputs an address owns
UnspentOf(S, address) == {o \in S.outputs : o.address = address /\ ~o.spent}

RECURSIVE TotalBalanceOver(_, _)
TotalBalanceOver(S, addrs) ==
  IF addrs = {} THEN 0
  ELSE LET a == CHOOSE x \in addrs : TRUE
       IN  GetBalance(S, a) + TotalBalanceOver(S, addrs \ {a})

\* the sum of getBalance over all addresses
TotalBalance(S) == TotalBalanceOver(S, Addresses)

\* the stored outputs of zero-input (value-creating) transactions
MintedOutputs(S) ==
  {o \in S.outputs :
     \E t \in S.transactions : t.id = o.tx_id /\ t.data.inputs = <<>>}

IsProcessBlock == call.op = "processBlock"

IsRollback == call.op = "rollbackToHeight"

(***************************************************************************)
(* Properties                                                              *)
(***************************************************************************)
\* C1: after any successful saveBlock and store rollbackToHeight calls,
\* getBalance(a) is the sum of the values of a's unspent stored outputs (0
\* when there is none), so never negative.
C1_BalanceIsUnspentSum ==
  \A a \in Addresses :
    /\ GetBalance(db, a) = SumValues(UnspentOf(db, a))
    /\ GetBalance(db, a) >= 0

\* a correctly identified height-1 block whose one transaction has no input
\* and a positive output sum
IsGenesisBlock(b) ==
  /\ IsBlock(b)
  /\ b.height = 1
  /\ b.id = ExpectedBlockId(1, b.transactions)
  /\ Len(b.transactions) = 1
  /\ b.transactions[1].inputs = <<>>
  /\ OutputSum(b.transactions[1]) > 0

\* value the outputs of tx give to address a
ReceivedFrom(tx, a) ==
  OutputSumFrom([i \in 1..Len(tx.outputs) |->
                   IF tx.outputs[i].address = a THEN tx.outputs[i]
                   ELSE [tx.outputs[i] EXCEPT !.value = 0]], 1)

\* C2: on the empty ledger processBlock accepts a genesis block (no input,
\* positive output sum); afterwards the height is 1 and every receiving
\* address's balance is the value minted to it.
C2_GenesisAccepted ==
  (IsProcessBlock /\ call.before = EmptyDb /\ IsGenesisBlock(call.arg)) =>
     /\ call.success
     /\ GetCurrentHeight(db) = 1
     /\ \A a \in Addresses :
          GetBalance(db, a) = ReceivedFrom(call.arg.transactions[1], a)

\* C3: processBlock accepts a block only at height currentHeight + 1; a block
\* with any other height is rejected with "Invalid height. Expected <h+1>,
\* got <height>" and the store, so currentHeight, stays what it was.
C3_WrongHeightRejected ==
  IsProcessBlock =>
    LET h == GetCurrentHeight(call.before)
        b == call.arg
    IN  /\ call.success => b.height = h + 1
        /\ (IsBlock(b) /\ b.height # h + 1) =>
             /\ ~call.success
             /\ call.error = "Invalid height. Expected " \o NumberToString(h + 1)
                             \o ", got " \o NumberToString(b.height)
             /\ db = call.before
             /\ GetCurrentHeight(db) = h

\* C3 witness: height 3 submitted at currentHeight 1 and refused
C3_Witness ==
  /\ IsProcessBlock /\ IsBlock(call.arg)
  /\ GetCurrentHeight(call.before) = 1
  /\ call.arg.height = 3
  /\ ~call.success

\* C4: after any processBlock and rollbackToHeight calls, run one at a time,
\* the stored heights are exactly 1..currentHeight, each stored once.
C4_ContiguousHeights ==
  /\ {b.height : b \in db.blocks} = 1..GetCurrentHeight(db)
  /\ Cardinality(db.blocks) = GetCurrentHeight(db)

\* C4 witness: a rollback from height 3 to height 1 has just succeeded
C4_Witness ==
  /\ IsRollback /\ call.success
  /\ GetCurrentHeight(call.before) = 3
  /\ call.arg = 1
  /\ Cardinality(db.blocks) = 1

\* C5: a block with an input that references an output already spent by a
\* stored block is rejected and changes nothing; when validation gets to
\* that input the reason is "Output already spent: <txId>:<index>".
C5_NoDoubleSpendAcrossBlocks ==
  (IsProcessBlock /\ IsBlock(call.arg)) =>
    LET b == call.arg
        S == call.before
    IN  \A k \in 1..Len(b.transactions) :
          \A i \in 1..Len(b.transactions[k].inputs) :
            LET tx == b.transactions[k]
            IN  (\E o \in Referenced(S, tx.inputs[i]) : o.spent) =>
                  /\ ~call.success
                  /\ db = S
                  /\ ( /\ ReachesTransaction(S, b, k)
                       /\ \A j \in 1..(i - 1) :
                            /\ Referenced(S, tx.inputs[j]) # {}
                            /\ \A o \in Referenced(S, tx.inputs[j]) : ~o.spent )
                     => call.error = "Output already spent: " \o RefText(tx.inputs[i])

\* C5 witness: at height 2, with the spending block stored, a well identified
\* block 3 that spends the same output again has been refused
C5_Witness ==
  /\ IsProcessBlock /\ IsBlock(call.arg)
  /\ GetCurrentHeight(call.before) = 2
  /\ HeightAndIdRight(call.before, call.arg)
  /\ Len(call.arg.transactions) = 1
  /\ Len(call.arg.transactions[1].inputs) = 1
  /\ \E o \in Referenced(call.before, call.arg.transactions[1].inputs[1]) :
       o.spent /\ o.block_height = 1
  /\ ~call.success

\* the inputs of a block in declared order
RECURSIVE AllInputs(_, _)
AllInputs(txs, k) ==
  IF k > Len(txs) THEN <<>> ELSE txs[k].inputs \o AllInputs(txs, k + 1)

\* C6: a block that references the same previously unspent output twice, in
\* two transactions or in two inputs of one, is not accepted.
C6_NoDoubleSpendInBlock ==
  (IsProcessBlock /\ IsBlock(call.arg)) =>
    LET refs == AllInputs(call.arg.transactions, 1)
    IN  (\E p, q \in 1..Len(refs) :
           /\ p < q
           /\ refs[p] = refs[q]
           /\ \E o \in Referenced(call.before, refs[p]) : ~o.spent)
        => (~call.success /\ db = call.before)

\* the genesis transaction the sum rule is said to exempt
Exempt(b, k) == b.height = 1 /\ b.transactions[k].inputs = <<>>

\* C7: every non-exempt transaction of an accepted block has input sum =
\* output sum; a block with a transaction whose sums differ is rejected and
\* changes nothing, and when validation gets to that comparison the reason is
\* "Input sum (<in>) does not equal output sum (<out>)".
C7_SumConservation ==
  IsProcessBlock =>
    LET b == call.arg
        S == call.before
    IN  \A k \in 1..Len(b.transactions) :
          LET tx == b.transactions[k] IN
          ~Exempt(b, k) =>
            /\ call.success =>
                 (AllInputsStored(S, tx) /\ InputSum(S, tx) = OutputSum(tx))
            /\ (IsBlock(b) /\ AllInputsStored(S, tx)
                /\ InputSum(S, tx) # OutputSum(tx)) =>
                 /\ ~call.success
                 /\ db = S
                 /\ (ReachesTransaction(S, b, k) /\ AllInputsUnspent(S, tx)) =>
                      call.error = "Input sum (" \o NumberToString(InputSum(S, tx))
                                   \o ") does not equal output sum ("
                                   \o NumberToString(OutputSum(tx)) \o ")"

\* C7 witness: a block 2 whose transaction spends a stored output of value 0
\* into an output of value 1 has been refused
C7_Witness ==
  /\ IsProcessBlock /\ IsBlock(call.arg)
  /\ HeightAndIdRight(call.before, call.arg)
  /\ call.arg.height = 2
  /\ Len(call.arg.transactions) = 1
  /\ Len(call.arg.transactions[1].inputs) = 1
  /\ AllInputsStored(call.before, call.arg.transactions[1])
  /\ AllInputsUnspent(call.before, call.arg.transactions[1])
  /\ InputSum(call.before, call.arg.transactions[1]) = 0
  /\ OutputSum(call.arg.transactions[1]) = 1
  /\ ~call.success

C9_RollbackIsInverse ==
  (IsRollback /\ call.success) =>
    /\ call.arg \in DOMAIN history
    /\ db = history[call.arg]
    /\ \A a \in Addresses : GetBalance(db, a) = GetBalance(history[call.arg], a)
    /\ GetCurrentHeight(db) = call.arg
    /\ (call.arg = 0 => db = EmptyDb)
    /\ (call.arg = GetCurrentHeight(call.before) => db = call.before)

\* C9 witness: a rollback from height 3 to height 1 cleared the spent mark of
\* an output of block 1
C9_Witness ==
  /\ IsRollback /\ call.success
  /\ GetCurrentHeight(call.before) = 3
  /\ call.arg = 1
  /\ \E o \in call.before.outputs :
       /\ o.block_height = 1 /\ o.spent
       /\ [o EXCEPT !.spent = FALSE, !.spent_in_tx = Null] \in db.outputs

\* C10: rollbackToHeight(h) with currentHeight - h > 2000 fails with "Cannot
\* rollback more than 2000 blocks..." and leaves the store as it was; a
\* rollback of depth exactly 2000 to a height 0 <= h <= currentHeight succeeds.
C10_RollbackDepthBound ==
  (IsRollback /\ call.arg >= 0) =>
    LET currentHeight == GetCurrentHeight(call.before)
        h == call.arg
    IN  /\ currentHeight - h > 2000 =>
             /\ ~call.success
             /\ call.error = "Cannot rollback more than 2000 blocks. Current: "
                             \o NumberToString(currentHeight) \o ", Target: "
                             \o NumberToString(h)
             /\ db = call.before
        /\ (h <= currentHeight /\ currentHeight - h = 2000) =>
             /\ call.success
             /\ GetCurrentHeight(db) = h

\* C10 witness: a rollback of depth 2001 has been refused
C10_Witness ==
  /\ IsRollback /\ call.arg >= 0
  /\ GetCurrentHeight(call.before) - call.arg = 2001
  /\ ~call.success

\* C11: rollbackToHeight(h) with h greater than currentHeight returns failure
\* "Cannot rollback to height <h>, current height is <currentHeight>" and
\* leaves every stored block, transaction, output and balance unchanged.
C11_FutureRollbackRejected ==
  IsRollback =>
    LET currentHeight == GetCurrentHeight(call.before)
    IN  call.arg > currentHeight =>
          /\ ~call.success
          /\ call.error = "Cannot rollback to height " \o NumberToString(call.arg)
                          \o ", current height is " \o NumberToString(currentHeight)
          /\ db = call.before
          /\ \A a \in Addresses : GetBalance(db, a) = GetBalance(call.before, a)

\* C11 witness: a rollback to height 3 has been refused at height 2, with
\* block 2 spending an output of block 1
C11_Witness ==
  /\ IsRollback
  /\ call.arg = 3
  /\ GetCurrentHeight(call.before) = 2
  /\ \E o \in call.before.outputs : o.spent
  /\ ~call.success

\* the block is stored: it was accepted and no rollback has removed it
Stored(S, b) == \E r \in S.blocks : r.data = b

\* C12: submitting a stored block again to processBlock, any number of times,
\* returns failure and leaves the store exactly as it was.
C12_ResubmissionRejected ==
  (IsProcessBlock /\ Stored(call.before, call.arg)) =>
    /\ ~call.success
    /\ db = call.before
    /\ \A a \in Addresses : GetBalance(db, a) = GetBalance(call.before, a)

\* C12 witness: block 2, which spent an output of block 1, has been submitted
\* again at height 3 and refused
C12_Witness ==
  /\ IsProcessBlock
  /\ Stored(call.before, call.arg)
  /\ call.arg.height = 2
  /\ GetCurrentHeight(call.before) = 3
  /\ Len(call.arg.transactions) = 1
  /\ Len(call.arg.transactions[1].inputs) = 1
  /\ ~call.success

\* the call has ended
Ended(task) == task.pc = "done"

\* a processBlock call of a block that, run alone against the store it
\* started from, is accepted
ValidOnItsOwn(task) ==
  /\ task.op = "processBlock"
  /\ ProcessBlockResult(task.before, task.arg).success

\* C13: two processBlock calls for the same height whose queries interleave
\* never both succeed; when each block is valid on its own for the next
\* height, exactly one call succeeds, the other fails, and the store holds
\* the winner's block alone at that height, its rows stored once.
C13_OneWinnerPerHeight ==
  \A t, u \in Tasks :
    (t # u /\ Ended(tasks[t]) /\ Ended(tasks[u])
     /\ tasks[t].op = "processBlock" /\ tasks[u].op = "processBlock"
     /\ tasks[t].arg.height = tasks[u].arg.height) =>
       /\ ~(tasks[t].success /\ tasks[u].success)
       /\ (ValidOnItsOwn(tasks[t]) /\ ValidOnItsOwn(tasks[u])) =>
            /\ tasks[t].success \/ tasks[u].success
            /\ tasks[t].success =>
                 /\ ~tasks[u].success /\ tasks[u].error # ""
                 /\ db = ProcessBlockResult(tasks[t].before, tasks[t].arg).db
                 /\ Cardinality({b \in db.blocks : b.height = tasks[t].arg.height}) = 1

\* C13 witness: both calls passed validation against the same store, for
\* different blocks of the next height, one of them spending a stored output,
\* and the call that came second to INSERT INTO blocks was refused by the
\* store
C13_Witness ==
  /\ Ended(tasks[1]) /\ Ended(tasks[2])
  /\ ValidOnItsOwn(tasks[1]) /\ ValidOnItsOwn(tasks[2])
  /\ tasks[1].before = tasks[2].before
  /\ tasks[1].arg.height = 3 /\ tasks[2].arg.height = 3
  /\ tasks[1].arg # tasks[2].arg
  /\ Len(tasks[1].arg.transactions) = 1
  /\ Len(tasks[1].arg.transactions[1].inputs) = 1
  /\ tasks[1].success /\ ~tasks[2].success
  /\ tasks[2].error = DuplicateKey("blocks_height_key")

\* the queries that read the store for the validator
ReadQueries == {"getCurrentHeight", "getOutput"}

\* the call has sent query q
HasSent(task, q) == \E n \in 1..Len(task.trace) : task.trace[n] = q

\* C14: processBlock runs the schema guard, then the validator, then
\* saveBlock, and stops at the first failure: a schema-invalid input sends
\* no query at all, a block the validator rejects never gets to saveBlock
\* (pool.connect), and every read of the validator precedes the first
\* statement of saveBlock.
C14_StagesInOrder ==
  (tasks[1].pc # "idle" /\ tasks[1].op = "processBlock") =>
    LET task == tasks[1]
        schemaValid == ValidateBlockSchema(task.arg).isValid
    IN  /\ ~schemaValid =>
             /\ task.trace = <<>>
             /\ Ended(task) /\ ~task.success
             /\ db = task.before
        /\ HasSent(task, "connect") =>
             /\ schemaValid
             /\ ValidateBlock(task.before, task.arg).isValid
        /\ \A m, n \in 1..Len(task.trace) :
             (m < n /\ task.trace[n] \in ReadQueries) => task.trace[m] \in ReadQueries
        /\ (task.trace # <<>>) => task.trace[1] = "getCurrentHeight"

\* C14 witness: a block of the right height and id was refused by the
\* validator at an input, after two reads and without a connection taken for
\* saveBlock
C14_Witness ==
  /\ tasks[1].pc = "done" /\ tasks[1].op = "processBlock"
  /\ ~tasks[1].fault
  /\ tasks[1].trace = <<"getCurrentHeight", "getOutput">>
  /\ ~tasks[1].success

\* C15: whenever processBlock returns failure, whatever the reason (schema,
\* height, id, missing or spent output, unbalanced sums, or an error of the
\* store), the stored blocks, transactions, outputs, spent flags and all
\* balances are those before the call.
C15_FailureChangesNothing ==
  (IsProcessBlock /\ ~call.success) =>
    /\ db = call.before
    /\ \A a \in Addresses : GetBalance(db, a) = GetBalance(call.before, a)
    /\ GetCurrentHeight(db) = GetCurrentHeight(call.before)

\* C15 witness: a block that passed validation was refused by the store (the
\* id of its transaction is already stored) after its block row was inserted
C15_Witness ==
  /\ IsProcessBlock /\ ~call.success
  /\ ValidateBlock(call.before, call.arg).isValid
  /\ call.error = DuplicateKey("transactions_pkey")
  /\ call.before.outputs # {}

\* number of queries q the call has sent
Count(task, q) == Cardinality({n \in 1..Len(task.trace) : task.trace[n] = q})

\* C16: saveBlock is all-or-nothing.  While its transaction is open nothing of
\* it is in the store; if a statement fails after earlier ones succeeded the
\* call ends with ROLLBACK, the store is the one before the call (no block
\* row, transaction row, output row or spent mark of the block remains) and
\* the error is raised to the caller; if none fails, every row is stored.
C16_SaveBlockAllOrNothing ==
  (tasks[1].pc # "idle" /\ tasks[1].op = "saveBlock") =>
    LET task == tasks[1]
    IN  /\ ~Ended(task) => db = task.before
        /\ (Ended(task) /\ task.outcome = "raised") =>
             /\ db = task.before
             /\ task.error # ""
             /\ HasSent(task, "BEGIN") =>
                  /\ Count(task, "ROLLBACK") = 1
                  /\ Count(task, "COMMIT") = 0
        /\ (Ended(task) /\ task.outcome = "returned") =>
             /\ task.success
             /\ db = SaveTransactions(InsertBlock(task.before, task.arg),
                                      task.arg, 1).db
             /\ Count(task, "COMMIT") = 1

\* C16 witness: the INSERT of the block's second transaction failed on a
\* stored transaction id, after the block row and the first transaction with
\* its output had been inserted
C16_Witness ==
  /\ Ended(tasks[1]) /\ tasks[1].op = "saveBlock"
  /\ tasks[1].outcome = "raised"
  /\ tasks[1].error = DuplicateKey("transactions_pkey")
  /\ Len(tasks[1].arg.transactions) = 2
  /\ Count(tasks[1], "INSERT transactions") = 2
  /\ Count(tasks[1], "INSERT outputs") = 1

\* C17: the store's rollbackToHeight is all-or-nothing.  While its
\* transaction is open the store is unchanged; if a step fails (an UPDATE that
\* clears a spent mark, a DELETE of outputs, transactions or blocks) no output
\* has been un-marked and no row deleted when the call returns, and
\* IndexerService.rollbackToHeight returns failure with the error's message.
C17_RollbackAllOrNothing ==
  (tasks[1].pc # "idle" /\ tasks[1].op = "rollbackToHeight") =>
    LET task == tasks[1]
    IN  /\ ~Ended(task) => db = task.before
        /\ (Ended(task) /\ task.fault) =>
             /\ db = task.before
             /\ task.outcome = "returned"
             /\ ~task.success
             /\ task.error = IoError
             /\ HasSent(task, "BEGIN") =>
                  /\ Count(task, "ROLLBACK") = 1
                  /\ Count(task, "COMMIT") = 0
        /\ (Ended(task) /\ task.success) =>
             /\ db = RollbackStore(task.before, task.arg)
             /\ Count(task, "COMMIT") = 1

\* C17 witness: a rollback from height 2 to height 0 failed at DELETE FROM
\* transactions, after a spent mark had been cleared and the outputs deleted
\* inside the transaction
C17_Witness ==
  /\ Ended(tasks[1]) /\ tasks[1].op = "rollbackToHeight"
  /\ tasks[1].fault
  /\ tasks[1].arg = 0
  /\ GetCurrentHeight(tasks[1].before) = 2
  /\ \E o \in tasks[1].before.outputs : o.spent
  /\ Count(tasks[1], "UPDATE outputs") = 1
  /\ Count(tasks[1], "DELETE outputs") = 1
  /\ Count(tasks[1], "DELETE transactions") = 1
  /\ Count(tasks[1], "DELETE blocks") = 0
  /\ ~tasks[1].success

\* C18: processBlock never raises.  A failure of the schema guard or of the
\* validator is returned as {success: false, error: reason}; an error raised
\* by the store, during validation or during saveBlock, is caught and
\* returned as {success: false} with the error's message.
C18_ProcessBlockNeverRaises ==
  (Ended(tasks[1]) /\ tasks[1].op = "processBlock") =>
    LET task == tasks[1]
        schemaValidation == ValidateBlockSchema(task.arg)
        validation == ValidateBlock(task.before, task.arg)
        saved == SaveBlock(task.before, task.arg)
    IN  /\ task.outcome = "returned"
        /\ task.fault => (~task.success /\ task.error = IoError)
        /\ (~task.fault /\ ~schemaValidation.isValid) =>
             (~task.success /\ task.error = schemaValidation.error)
        /\ (~task.fault /\ schemaValidation.isValid /\ ~validation.isValid) =>
             (~task.success /\ task.error = validation.error)
        /\ (~task.fault /\ schemaValidation.isValid /\ validation.isValid
            /\ ~saved.ok) =>
             (~task.success /\ task.error = saved.error)
        /\ ~task.success => task.error # ""

\* C18 witness: a getOutput query of the validator failed and processBlock
\* returned the failure
C18_Witness ==
  /\ Ended(tasks[1]) /\ tasks[1].op = "processBlock"
  /\ tasks[1].fault
  /\ tasks[1].trace = <<"getCurrentHeight", "getOutput">>
  /\ tasks[1].outcome = "returned"
  /\ ~tasks[1].success

\* the least element of a non-empty set of numbers
SetMin(S) == CHOOSE m \in S : \A n \in S : m <= n

\* the reason the rules give for a transaction that breaks one against S:
\* its first input that is not stored or is spent; failing that, its first
\* negative output; failing that, the sums
TransactionReason(S, tx) ==
  LET badInputs == {i \in 1..Len(tx.inputs) :
                      \/ Referenced(S, tx.inputs[i]) = {}
                      \/ \E o \in Referenced(S, tx.inputs[i]) : o.spent}
      negatives == {i \in 1..Len(tx.outputs) : tx.outputs[i].value < 0}
  IN  IF badInputs # {}
      THEN LET input == tx.inputs[SetMin(badInputs)]
           IN  IF Referenced(S, input) = {}
               THEN "Referenced output not found: " \o RefText(input)
               ELSE "Output already spent: " \o RefText(input)
      ELSE IF negatives # {}
      THEN "Negative output value not allowed: "
           \o NumberToString(tx.outputs[SetMin(negatives)].value)
      ELSE "Input sum (" \o NumberToString(InputSum(S, tx))
           \o ") does not equal output sum (" \o NumberToString(OutputSum(tx)) \o ")"

\* the transactions of b that break a rule against S
BadTransactions(S, b) ==
  {k \in 1..Len(b.transactions) : ~TxAcceptable(S, b.transactions[k])}

\* C19: validateBlock reports the first failure only, in the order height,
\* block id, then the transactions as declared, and within a transaction the
\* inputs (not found, then spent), the signs of the outputs, the sums.  A
\* block with a wrong height is refused with the height reason after the one
\* read of the height, whatever else is wrong with it.
C19_FirstFailureWins ==
  (Ended(tasks[1]) /\ tasks[1].op = "validateBlock" /\ ~tasks[1].fault) =>
    LET task == tasks[1]
        b == task.arg
        S == task.before
        h == GetCurrentHeight(S)
        expectedId == ExpectedBlockId(b.height, b.transactions)
    IN  /\ b.height # h + 1 =>
             /\ ~task.success
             /\ task.error = "Invalid height. Expected " \o NumberToString(h + 1)
                             \o ", got " \o NumberToString(b.height)
             /\ task.trace = <<"getCurrentHeight">>
        /\ (b.height = h + 1 /\ b.id # expectedId) =>
             /\ ~task.success
             /\ task.error = "Invalid block ID. Expected " \o expectedId
                             \o ", got " \o b.id
             /\ task.trace = <<"getCurrentHeight">>
        /\ (HeightAndIdRight(S, b) /\ BadTransactions(S, b) # {}) =>
             /\ ~task.success
             /\ task.error =
                  TransactionReason(S, b.transactions[SetMin(BadTransactions(S, b))])
        /\ (HeightAndIdRight(S, b) /\ BadTransactions(S, b) = {}) =>
             (task.success /\ task.error = "")

\* C19 witness: a block with a wrong height and a wrong id has been refused
\* with the height reason
C19_Witness ==
  /\ Ended(tasks[1]) /\ tasks[1].op = "validateBlock" /\ ~tasks[1].fault
  /\ tasks[1].arg.id = WrongId
  /\ tasks[1].arg.height = 3
  /\ GetCurrentHeight(tasks[1].before) = 1
  /\ tasks[1].error = "Invalid height. Expected 2, got 3"

\* C20: validateBlock is read-only.  From its call to its verdict, valid or
\* invalid, the stored blocks, transactions, outputs and spent flags stay
\* what they were, and the only queries it sends are reads; the same holds
\* of the validation inside processBlock.
C20_ValidatorReadOnly ==
  LET task == tasks[1] IN
  /\ (task.pc # "idle" /\ task.op = "validateBlock") =>
       /\ db = task.before
       /\ \A n \in 1..Len(task.trace) : task.trace[n] \in ReadQueries
  /\ (task.pc \in {"getCurrentHeight", "getOutput"} /\ task.op = "processBlock") =>
       /\ db = task.before
       /\ \A n \in 1..Len(task.trace) : task.trace[n] \in ReadQueries

\* C20 witness: validateBlock has returned valid for a block that spends a
\* stored output, which is still unspent
C20_Witness ==
  /\ Ended(tasks[1]) /\ tasks[1].op = "validateBlock"
  /\ tasks[1].success
  /\ HasSent(tasks[1], "getOutput")
  /\ \E o \in Referenced(db, tasks[1].arg.transactions[1].inputs[1]) : ~o.spent

\* the second transaction of a two-transaction block spends only outputs the
\* first one creates, each once, and both are balanced: the first against the
\* store, the second against the outputs of the first
IsInBlockChain(S, b) ==
  /\ Len(b.transactions) = 2
  /\ LET tx1 == b.transactions[1]
         tx2 == b.transactions[2]
     IN  /\ tx1.id # tx2.id
         /\ \A r \in S.transactions : r.id \notin {tx1.id, tx2.id}
         /\ TxAcceptable(S, tx1)
         /\ Len(tx2.inputs) = 1
         /\ tx2.inputs[1].txId = tx1.id
         /\ tx2.inputs[1].index < Len(tx1.outputs)
         /\ tx1.outputs[tx2.inputs[1].index + 1].value = OutputSum(tx2)

\* C21: processBlock accepts a block whose later transaction spends an output
\* an earlier transaction of the same block creates (each balanced);
\* afterwards that output is stored as spent by the later transaction and
\* every balance is the sum of the address's unspent outputs.
C21_InBlockChainAccepted ==
  (IsProcessBlock /\ IsBlock(call.arg) /\ HeightAndIdRight(call.before, call.arg)
   /\ IsInBlockChain(call.before, call.arg)) =>
     /\ call.success
     /\ \E o \in Referenced(db, call.arg.transactions[2].inputs[1]) :
          o.spent /\ o.spent_in_tx = call.arg.transactions[2].id
     /\ \A a \in Addresses : GetBalance(db, a) = SumValues(UnspentOf(db, a))

\* the call of the task is a read of the service
IsRead(task) == task.op \in {"getBalance", "getCurrentHeight"}

\* the call of the task writes the store
IsWrite(task) == task.op \in {"processBlock", "rollbackToHeight"}

\* the store once the write of the task, run alone from S, is complete
Completed(S, task) ==
  IF task.op = "processBlock" THEN ProcessBlockResult(S, task.arg).db
  ELSE RollbackToHeightResult(S, task.arg).db

\* what the read of the task returns from store S
Observes(S, task) ==
  IF task.op = "getBalance" THEN GetBalance(S, task.arg.value)
  ELSE GetCurrentHeight(S)

\* C22: a getBalance or getCurrentHeight call that runs while another caller's
\* processBlock or rollbackToHeight is under way returns what it would return
\* from the store before that write or from the store after the complete
\* write, never a value only a partly applied write explains.
C22_ReadsSeeWholeWrites ==
  \A r \in Tasks : \A w \in Tasks \ {r} :
    (/\ tasks[r].pc = "done" /\ IsRead(tasks[r]) /\ tasks[r].outcome = "returned"
     /\ tasks[w].pc # "idle" /\ IsWrite(tasks[w])) =>
      tasks[r].value \in {Observes(tasks[w].before, tasks[r]),
                          Observes(Completed(tasks[w].before, tasks[w]), tasks[r])}

\* a getBalance ran while the other caller's transaction had written part of
\* a block that changes this balance, and returned the balance of before
C22_Witness ==
  \E r \in Tasks : \E w \in Tasks \ {r} :
    /\ tasks[r].pc = "done" /\ tasks[r].op = "getBalance"
    /\ tasks[r].overlaps
    /\ tasks[w].pc # "idle" /\ tasks[w].op = "processBlock"
    /\ Observes(tasks[w].before, tasks[r])
         # Observes(Completed(tasks[w].before, tasks[w]), tasks[r])
    /\ tasks[r].value = Observes(tasks[w].before, tasks[r])

\* a number that is an integer and not negative
IsNonNegativeInteger(v) == IsInteger(v) /\ v.tenths >= 0

\* C23: IndexerService.rollbackToHeight rejects every height that is not a
\* non-negative integer (negative, fractional, not a number, null, undefined)
\* with the failure 'Height must be a non-negative number', and neither reads
\* nor changes the store.
C23_BadHeightRejected ==
  (call.op = "rollbackToHeight" /\ ~IsNonNegativeInteger(call.arg)) =>
    /\ ~call.success
    /\ call.error = "Height must be a non-negative number"
    /\ call.storeCalls = <<>>
    /\ db = call.before

IsNonEmptyString(v) == v.kind = "string" /\ v.value # ""

IsObject(v) == v.kind \in {"object", "array"}

WellFormedInput(input) ==
  /\ IsObject(input)
  /\ IsNonEmptyString(Get(input, "txId"))
  /\ IsNonNegativeInteger(Get(input, "index"))

WellFormedOutput(output) ==
  /\ IsObject(output)
  /\ IsNonEmptyString(Get(output, "address"))
  /\ Get(output, "value").kind = "number" /\ Get(output, "value").tenths >= 0

\* the id and the two arrays of a transaction are in place
HasTransactionFields(tx) ==
  /\ IsObject(tx)
  /\ IsNonEmptyString(Get(tx, "id"))
  /\ IsArray(Get(tx, "inputs"))
  /\ IsArray(Get(tx, "outputs"))

\* positions of the inputs and outputs of tx that are not well formed
BadInputs(tx) ==
  {i \in 1..Len(Get(tx, "inputs").items) : ~WellFormedInput(Get(tx, "inputs").items[i])}

BadOutputs(tx) ==
  {i \in 1..Len(Get(tx, "outputs").items) : ~WellFormedOutput(Get(tx, "outputs").items[i])}

WellFormedTransaction(tx) ==
  HasTransactionFields(tx) /\ BadInputs(tx) = {} /\ BadOutputs(tx) = {}

\* the id, the height and the array of a block are in place
HasBlockFields(data) ==
  /\ IsObject(data)
  /\ IsNonEmptyString(Get(data, "id"))
  /\ IsInteger(Get(data, "height")) /\ Get(data, "height").tenths >= 10
  /\ IsArray(Get(data, "transactions"))

BadTransactionArguments(data) ==
  {k \in 1..Len(Get(data, "transactions").items) :
     ~WellFormedTransaction(Get(data, "transactions").items[k])}

WellFormedBlock(data) == HasBlockFields(data) /\ BadTransactionArguments(data) = {}

\* the reasons that name what is wrong first in a transaction that is not
\* well formed: its own fields, else its first bad input, else its first bad
\* output
NamedReasons(tx) ==
  IF ~HasTransactionFields(tx)
  THEN {"Transaction must be an object", "Transaction ID must be a non-empty string",
        "Transaction inputs must be an array", "Transaction outputs must be an array"}
  ELSE IF BadInputs(tx) # {}
  THEN {"Input " \o NumberToString(SetMin(BadInputs(tx)) - 1) \o rest :
          rest \in {" must be an object", " txId must be a non-empty string",
                    " index must be a non-negative number"}}
  ELSE {"Output " \o NumberToString(SetMin(BadOutputs(tx)) - 1) \o rest :
          rest \in {" must be an object", " address must be a non-empty string",
                    " value must be a non-negative number"}}

\* C24: validateBlockSchema returns invalid, and leaves the store alone, for
\* every input that is no object, lacks a non-empty string id, has a height
\* that is no positive integer, transactions that are no array, a transaction
\* without non-empty string id or array inputs and outputs, an input without
\* non-empty string txId or with an index that is no non-negative integer, or
\* an output without non-empty string address or with a value that is no
\* non-negative number; the reason is the one of the first violation and
\* names the index of the transaction and of the input or output.
C24_SchemaGuardRejects ==
  call.op = "validateBlockSchema" =>
    /\ db = call.before
    /\ ~WellFormedBlock(call.arg) => ~call.success
    /\ (HasBlockFields(call.arg) /\ BadTransactionArguments(call.arg) # {}) =>
         LET k == SetMin(BadTransactionArguments(call.arg))
         IN  call.error \in
               {"Transaction " \o NumberToString(k - 1) \o ": " \o reason :
                  reason \in NamedReasons(Get(call.arg, "transactions").items[k])}

\* C25: IndexerService.getBalance raises 'Address must be a non-empty string'
\* for every address that is empty, null, undefined or no string, without a
\* query to the store; for every non-empty string it returns what the
\* store's getBalance returns, which is 0 for an address that never received
\* an output.
C25_GetBalanceArgument ==
  (tasks[1].pc = "done" /\ tasks[1].op = "getBalance" /\ ~tasks[1].fault) =>
    LET task == tasks[1] IN
    /\ db = task.before
    /\ IF IsNonEmptyString(task.arg)
       THEN /\ task.outcome = "returned"
            /\ task.trace = <<"getBalance">>
            /\ task.value = GetBalance(task.before, task.arg.value)
            /\ (\A o \in task.before.outputs : o.address # task.arg.value)
                 => task.value = 0
       ELSE /\ task.outcome = "raised"
            /\ task.error = "Address must be a non-empty string"
            /\ task.trace = <<>>

\* getBalance('') was rejected on a ledger that holds outputs
C25_Witness ==
  /\ tasks[1].pc = "done" /\ tasks[1].op = "getBalance"
  /\ tasks[1].arg = String("")
  /\ tasks[1].outcome = "raised"
  /\ db.outputs # {}

\* C26: POST /blocks answers success when processBlock accepts the block, a
\* client error 400 with the validator's reason as its message when the schema
\* guard or the block validator rejects it, and a server error (5xx) when the
\* block passes both and the store fails to save it.
C26_IngestOutcomeMapping ==
  call.op = "POST /blocks" =>
    LET schemaValidation == ValidateBlockSchema(call.arg)
        validation == ValidateBlock(call.before, call.arg)
    IN  IF ~schemaValidation.isValid
        THEN call.reply.status = 400 /\ call.reply.message = schemaValidation.error
        ELSE IF ~validation.isValid
        THEN call.reply.status = 400 /\ call.reply.message = validation.error
        ELSE IF SaveBlock(call.before, call.arg).ok
        THEN call.reply.status \in 200..299
        ELSE call.reply.status \in 500..599

\* a transaction of block b carries the id of a transaction stored in S, or
\* two transactions of b carry the same id
ReusesTransactionId(S, b) ==
  \/ \E k \in 1..Len(b.transactions) :
       \E r \in S.transactions : r.id = b.transactions[k].id
  \/ \E j, k \in 1..Len(b.transactions) :
       j # k /\ b.transactions[j].id = b.transactions[k].id

\* C27: after any sequence of processBlock and rollbackToHeight calls no two
\* stored outputs share (txId, index) and no two stored transactions share an
\* id; a block that reuses the id of a transaction still stored, or repeats
\* an id within itself, is not applied and leaves the store as it was.
C27_OutputKeysUnique ==
  /\ \A o1, o2 \in db.outputs : OutputKey(o1) = OutputKey(o2) => o1 = o2
  /\ \A t1, t2 \in db.transactions : t1.id = t2.id => t1 = t2
  /\ (IsProcessBlock /\ IsBlock(call.arg) /\ ReusesTransactionId(call.before, call.arg)) =>
       ~call.success /\ db = call.before

\* a block that passes the validator reuses the id of a stored transaction
\* and is turned down by the store
C27_Witness ==
  /\ IsProcessBlock /\ IsBlock(call.arg)
  /\ ValidateBlock(call.before, call.arg).isValid
  /\ Len(call.arg.transactions) = 1
  /\ \E r \in call.before.transactions : r.id = call.arg.transactions[1].id
  /\ call.error = DuplicateKey("transactions_pkey")
  /\ db.outputs = call.before.outputs /\ db.outputs # {}

\* the transactions of block b that have an input referencing output o
Spenders(b, o) ==
  {b.transactions[k].id : k \in {j \in 1..Len(b.transactions) :
     \E i \in 1..Len(b.transactions[j].inputs) :
       /\ b.transactions[j].inputs[i].txId = o.tx_id
       /\ b.transactions[j].inputs[i].index = o.output_index}}

\* C28: a successful saveBlock changes, among the outputs that existed
\* before, only the spent flag and the spending transaction of the outputs its
\* inputs reference; address, value and producing height of every existing
\* output, and the spent state of every output not referenced, stay as they
\* were, and no existing output disappears.
C28_OutputsImmutable ==
  (call.op = "saveBlock" /\ call.success) =>
    \A o \in call.before.outputs :
      \E n \in db.outputs :
        /\ OutputKey(n) = OutputKey(o)
        /\ n.address = o.address /\ n.value = o.value
        /\ n.block_height = o.block_height
        /\ IF Spenders(call.arg, o) = {}
           THEN n.spent = o.spent /\ n.spent_in_tx = o.spent_in_tx
           ELSE n.spent /\ n.spent_in_tx \in Spenders(call.arg, o)

\* a saved block spent one of two existing outputs of one transaction
C28_Witness ==
  /\ call.op = "saveBlock" /\ call.success
  /\ \E o1, o2 \in call.before.outputs :
       /\ o1.tx_id = o2.tx_id /\ o1.output_index # o2.output_index
       /\ Spenders(call.arg, o1) # {} /\ Spenders(call.arg, o2) = {}
       /\ ~o1.spent
       /\ \E n \in db.outputs : OutputKey(n) = OutputKey(o1) /\ n.spent

\* block b holds one transaction, which spends one output of the block first
\* with as much value as it creates, and b carries the id of its content
SpendsOutputOf(b, first) ==
  /\ Len(b.transactions) = 1 /\ Len(first.transactions) = 1
  /\ b.id = ExpectedBlockId(b.height, b.transactions)
  /\ LET tx == b.transactions[1]
         source == first.transactions[1]
     IN  /\ Len(tx.inputs) = 1
         /\ tx.inputs[1].txId = source.id
         /\ tx.inputs[1].index < Len(source.outputs)
         /\ source.outputs[tx.inputs[1].index + 1].value
              = ReduceOutputs(tx.outputs, 1, 0)

\* the value the outputs of a transaction give to an address
Receives(tx, a) ==
  ReduceOutputs(SelectSeq(tx.outputs, LAMBDA o : o.address = a), 1, 0)

\* C29: earlier POST /blocks route: after a valid block of height 1 was
\* accepted, a valid block of height 2 that spends its output is answered 200;
\* then the balance of the address that spent is 0 (GET /balance answers 404)
\* and the balance of each recipient is the value of its outputs.
C29_LegacyChainAccepted ==
  \A n \in 1..(Len(history) - 1) :
    (/\ call.op = "blocksRoute" /\ call.arg.height = 2
     /\ history[n].status = 200 /\ history[n].body.height = 1
     /\ SpendsOutputOf(call.arg, history[n].body)) =>
      LET spent == history[n].body.transactions[1]
                     .outputs[call.arg.transactions[1].inputs[1].index + 1]
      IN  /\ call.status = 200
          /\ balancesRoute(db, spent.address).status = 404
          /\ \A a \in LegacyAddresses \ {spent.address} :
               getBalance(db, a) = Receives(call.arg.transactions[1], a)

\* C30: earlier POST /rollback route: the blocks 1..3 of the chain (100 to
\* addr1; split 60 to addr2 and 40 to addr3; addr3's 40 split 20 to addr4 and
\* 20 to addr5), submitted in this order, are accepted, and the rollback to
\* height 2 after them is answered 200 and leaves the balances of height 2:
\* addr4 and addr5 have none (404) and addr3 has its 40 again.
C30_LegacyRollback ==
  (/\ call.op = "rollbackRoute" /\ call.arg = 2
   /\ Len(history) = 3
   /\ history[1].body = GenesisBlock
   /\ history[2].body = SecondBlock
   /\ history[3].body = ThirdBlock) =>
    /\ \A n \in 1..3 : history[n].status = 200
    /\ call.status = 200
    /\ balancesRoute(db, "addr4").status = 404
    /\ balancesRoute(db, "addr5").status = 404
    /\ getBalance(db, "addr3") = 40

\* C31: with the queries of concurrent processBlock and rollbackToHeight
\* calls interleaved, the committed block heights are the contiguous sequence
\* 1..currentHeight after every commit: a block validated against height H is
\* never committed on a tip that a concurrent rollback has moved below H.
C31_ConcurrentContiguousHeights ==
  {b.height : b \in db.blocks} = 1..GetCurrentHeight(db)

\* the inputs of every transaction of block b reference outputs that store S
\* holds unspent
InputsLive(S, b) ==
  \A k \in 1..Len(b.transactions) :
    \A i \in 1..Len(b.transactions[k].inputs) :
      \E o \in Referenced(S, b.transactions[k].inputs[i]) : ~o.spent

\* task t commits the block of its processBlock call in this step
CommitsBlock(t) ==
  /\ tasks[t].pc = "transaction"
  /\ tasks[t].op = "processBlock"
  /\ tasks'[t].pc = "done"
  /\ tasks'[t].success

\* C32: under any interleaving of concurrent processBlock and rollbackToHeight
\* calls, at the moment a block is committed each of its inputs references an
\* output that the committed store holds and that was unspent before this
\* block.
C32_InputsLiveAtCommit ==
  [][\A t \in Tasks : CommitsBlock(t) => InputsLive(db, tasks[t].arg)]_vars

\* the height of the stored transaction an output's spending reference names
\* (the empty set when it names none)
SpenderHeights(S, o) ==
  {t.block_height : t \in {r \in S.transactions : r.id = o.spent_in_tx}}

\* C33: frame of the store's rollbackToHeight(k): it removes every block,
\* transaction and output above height k and nothing else; an output that
\* stays loses its spent mark and spending reference exactly when the
\* transaction that spent it is removed, an output spent at height <= k stays
\* spent by the same transaction, and an unspent output stays unspent.
C33_RollbackFrame ==
  call.op = "storeRollback" =>
    LET B == call.before
        k == call.arg
    IN  /\ db.blocks = {b \in B.blocks : b.height <= k}
        /\ db.transactions = {t \in B.transactions : t.block_height <= k}
        /\ {OutputKey(o) : o \in db.outputs}
             = {OutputKey(o) : o \in {x \in B.outputs : x.block_height <= k}}
        /\ Cardinality(db.outputs)
             = Cardinality({x \in B.outputs : x.block_height <= k})
        /\ \A o \in B.outputs :
             o.block_height <= k =>
               IF o.spent /\ \E h \in SpenderHeights(B, o) : h > k
               THEN [o EXCEPT !.spent = FALSE, !.spent_in_tx = Null] \in db.outputs
               ELSE o \in db.outputs

\* C33 witness: a rollback from height 3 to height 2 removed block 3 and its
\* output, cleared the mark of the output block 3 spent, and kept an output
\* spent by block 2 and an unspent output as they were
C33_Witness ==
  /\ call.op = "storeRollback" /\ call.arg = 2
  /\ GetCurrentHeight(call.before) = 3
  /\ \E o \in call.before.outputs : o.block_height = 3
  /\ \E o \in call.before.outputs :
       /\ o.block_height <= 2 /\ o.spent /\ SpenderHeights(call.before, o) = {3}
       /\ [o EXCEPT !.spent = FALSE, !.spent_in_tx = Null] \in db.outputs
  /\ \E o \in call.before.outputs :
       o.spent /\ SpenderHeights(call.before, o) = {2} /\ o \in db.outputs
  /\ \E o \in call.before.outputs :
       o.block_height <= 2 /\ ~o.spent /\ o \in db.outputs

\* the block store B holds at height h, as it was submitted
BlockAt(B, h) == (CHOOSE b \in B.blocks : b.height = h).data

\* the blocks of B from height h on submitted again to processBlock, one after
\* the other, starting from store S: the first failure, or the last result
RECURSIVE Resubmitted(_, _, _)
Resubmitted(S, B, h) ==
  IF h > GetCurrentHeight(B) THEN Success(S)
  ELSE LET r == ProcessBlockResult(S, BlockAt(B, h))
       IN  IF r.success THEN Resubmitted(r.db, B, h + 1) ELSE r

\* a block that breaks no rule against store S: next height, the id of its
\* content, every transaction acceptable, transaction ids that S does not
\* hold and that differ from each other
ValidBlockFor(S, b) ==
  /\ IsBlock(b)
  /\ HeightAndIdRight(S, b)
  /\ \A k \in 1..Len(b.transactions) :
       /\ TxAcceptable(S, b.transactions[k])
       /\ \A t \in S.transactions : t.id # b.transactions[k].id
       /\ \A j \in 1..(k - 1) : b.transactions[j].id # b.transactions[k].id

\* C34: after a successful rollbackToHeight(k) from height N, the blocks
\* k+1..N that were stored, submitted again in order with their ids, are
\* accepted one by one and give back exactly the store of before the
\* rollback; any other valid block of height k+1 is accepted as well.
C34_RollbackThenResubmit ==
  (IsRollback /\ call.success) =>
    /\ Resubmitted(db, call.before, call.arg + 1).success
    /\ Resubmitted(db, call.before, call.arg + 1).db = call.before
    /\ \A b \in BlockInputs :
         ValidBlockFor(db, b) => ProcessBlockResult(db, b).success

\* C34 witness: a rollback from height 3 to height 1 removed two blocks with
\* transactions, the second spending an output of the first, and cleared a
\* spent mark; a block other than the removed one is valid at height 2
C34_Witness ==
  /\ IsRollback /\ call.success /\ call.arg = 1
  /\ GetCurrentHeight(call.before) = 3
  /\ \E o \in call.before.outputs :
       o.block_height = 1 /\ o.spent /\ SpenderHeights(call.before, o) = {2}
  /\ \E o \in call.before.outputs :
       o.block_height = 2 /\ o.spent /\ SpenderHeights(call.before, o) = {3}
  /\ db # call.before
  /\ \E b \in BlockInputs :
       /\ ValidBlockFor(db, b) /\ b # BlockAt(call.before, 2)
       /\ b.transactions # <<>>

\* the stored transactions the spending reference of output o names
SpendersOf(S, o) == {t \in S.transactions : t.id = o.spent_in_tx}

\* C35: in every state reached by processBlock and rollbackToHeight calls run
\* one at a time, a stored output is spent exactly when its spending reference
\* is set, and the reference names a stored transaction, of a height not below
\* the output's own, that has this output among its inputs.
C35_SpentMarkerConsistent ==
  \A o \in db.outputs :
    /\ o.spent <=> o.spent_in_tx # Null
    /\ o.spent =>
         /\ SpendersOf(db, o) # {}
         /\ \A t \in SpendersOf(db, o) :
              /\ t.block_height >= o.block_height
              /\ \E i \in 1..Len(t.data.inputs) :
                   /\ t.data.inputs[i].txId = o.tx_id
                   /\ t.data.inputs[i].index = o.output_index

\* C35 witness: a rollback has removed a spending block and cleared the mark
\* it had set, while an output spent by a kept block is still marked
C35_Witness ==
  /\ IsRollback /\ call.success
  /\ \E o \in call.before.outputs :
       /\ o.spent
       /\ [o EXCEPT !.spent = FALSE, !.spent_in_tx = Null] \in db.outputs
  /\ \E o \in db.outputs : o.spent /\ SpendersOf(db, o) # {}

\* block b holds a transaction without inputs whose outputs sum to more than 0
CreatesValue(b) ==
  \E k \in 1..Len(b.transactions) :
    b.transactions[k].inputs = <<>> /\ OutputSum(b.transactions[k]) > 0

Orders(n) == {p \in [1..n -> 1..n] : \A i, j \in 1..n : p[i] = p[j] => i = j}

\* block b with its transactions in order p
Reordered(b, p) ==
  [b EXCEPT !.transactions = [i \in 1..Len(b.transactions) |-> b.transactions[p[i]]]]

\* how many transactions of block b carry the id x
IdCount(b, x) ==
  Cardinality({i \in 1..Len(b.transactions) : b.transactions[i].id = x})

\* C37: the verdict of validateBlockId depends only on the block's id, its
\* height and the transaction ids with their multiplicities: every
\* permutation of the transactions, and every block of the same id and height
\* whose transactions carry the same ids, gets the same verdict.
C37_BlockIdOrderIndependent ==
  IsProcessBlock =>
    /\ \A p \in Orders(Len(call.arg.transactions)) :
         ValidateBlockId(Reordered(call.arg, p)) = ValidateBlockId(call.arg)
    /\ \A b \in BlockInputs :
         (/\ b.id = call.arg.id /\ b.height = call.arg.height
          /\ \A x \in TxIds : IdCount(b, x) = IdCount(call.arg, x))
         => ValidateBlockId(b) = ValidateBlockId(call.arg)

\* C37 witness: processBlock has accepted a block whose two transactions are
\* declared against the order of their ids
C37_Witness ==
  /\ IsProcessBlock /\ call.success
  /\ Len(call.arg.transactions) = 2
  /\ Rank(call.arg.transactions[1].id) > Rank(call.arg.transactions[2].id)
  /\ ValidateBlockId(call.arg).isValid

\* task t is inside saveBlock or the store's rollbackToHeight
InStoreCall(t) == tasks[t].pc \in {"connect", "transaction", "failed"}

\* the position of the last query a call has sent
Last(task) == Len(task.trace)

\* a finished call that got a client has sent BEGIN once, ended with COMMIT
\* when it returns and with ROLLBACK when it raises, released its client
\* once, as the last thing it did, and has no write pending
TransactionClosed(task) ==
  HasSent(task, "BEGIN") =>
    /\ Count(task, "connect") = 1
    /\ Count(task, "BEGIN") = 1
    /\ Count(task, "release") = 1
    /\ task.trace[Last(task)] = "release"
    /\ task.trace[Last(task) - 1] \in {"COMMIT", "ROLLBACK"}
    /\ task.outcome = "returned" =>
         /\ task.trace[Last(task) - 1] = "COMMIT"
         /\ Count(task, "COMMIT") = 1
         /\ Count(task, "ROLLBACK") = 0
    /\ task.outcome = "raised" =>
         /\ task.trace[Last(task) - 1] = "ROLLBACK"
         /\ Count(task, "ROLLBACK") = 1
    /\ task.log = <<>>

\* C38: every saveBlock and store rollbackToHeight call returns or raises in
\* the end, and when it does, whether all its statements succeeded or one of
\* them failed, its transaction has been ended by COMMIT or by ROLLBACK and
\* its client has been released exactly once.
C38_TransactionAlwaysEnded ==
  /\ [](\A t \in Tasks : tasks[t].pc = "done" => TransactionClosed(tasks[t]))
  /\ \A t \in Tasks : InStoreCall(t) ~> (tasks[t].pc = "done")

\* C38 witness: two calls waited for each other; the one the server failed
\* has rolled back and raised, the other has committed and returned
C38_Witness ==
  \E t, u \in Tasks :
    /\ tasks[t].pc = "done" /\ tasks[t].outcome = "raised"
    /\ tasks[t].error = "deadlock detected"
    /\ TransactionClosed(tasks[t]) /\ HasSent(tasks[t], "BEGIN")
    /\ tasks[u].pc = "done" /\ tasks[u].outcome = "returned"
    /\ HasSent(tasks[u], "COMMIT")

====
